---- MODULE Spec2Model ----
(***************************************************************************)
(* Munim AI assistant: the session store (utils/session_manager.py), the  *)
(* conversation state machine (utils/conversation_processor.py) and the   *)
(* GST invoice / transaction / ledger engine (utils/data_manager.py).     *)
(*                                                                         *)
(* Text is a sequence of one-character strings, so that lower(), strip()  *)
(* and the regular expressions of the handlers are computed, not assumed. *)
(* Money is an exact decimal kept as an integer number of 1/Scale rupees  *)
(* (the code uses binary floats, which agree with these values up to the  *)
(* rounding of the last bits).                                            *)
(***************************************************************************)
EXTENDS Integers, Sequences, FiniteSets, TLC

VARIABLES SESSIONS, now, invoices, transactions, ledgers, unreadable, ret, requests

vars == <<SESSIONS, now, invoices, transactions, ledgers, unreadable, ret, requests>>

(***************************************************************************)
(* Bounds of the model.                                                    *)
(***************************************************************************)
MaxRecords == 1
MaxTicks == 2
MaxSessions == 2
MaxEntries == 2
MaxClock == 2400
MaxIssued == 2

(***************************************************************************)
(* Characters and text.                                                    *)
(***************************************************************************)
UpperChars == <<"A","B","C","D","E","F","G","H","I","J","K","L","M",
                "N","O","P","Q","R","S","T","U","V","W","X","Y","Z">>
LowerChars == <<"a","b","c","d","e","f","g","h","i","j","k","l","m",
                "n","o","p","q","r","s","t","u","v","w","x","y","z">>
DigitChars == <<"0","1","2","3","4","5","6","7","8","9">>

Range(s) == {s[i] : i \in DOMAIN s}

IsUpper(c) == c \in Range(UpperChars)
IsLower(c) == c \in Range(LowerChars)
IsDigit(c) == c \in Range(DigitChars)
IsAlnumUpper(c) == IsDigit(c) \/ IsUpper(c)
\* \s of the regular expressions, and the whitespace str.strip() removes
IsSpace(c) == c = " "
\* \w of the regular expressions
IsWord(c) == IsUpper(c) \/ IsLower(c) \/ IsDigit(c) \/ c = "_"
\* [\d,] of the amount expressions
IsAmountChar(c) == IsDigit(c) \/ c = ","

DigitVal(c) == (CHOOSE i \in DOMAIN DigitChars : DigitChars[i] = c) - 1

LowerChar(c) ==
    IF IsUpper(c) THEN LowerChars[CHOOSE i \in DOMAIN UpperChars : UpperChars[i] = c]
    ELSE c

\* str.lower() that also strips the text
Lower_stripped(s) ==
    LET nonsp == {i \in DOMAIN s : ~IsSpace(s[i])}
        t == IF nonsp = {} THEN <<>>
             ELSE SubSeq(s, CHOOSE i \in nonsp : \A j \in nonsp : i <= j,
                            CHOOSE i \in nonsp : \A j \in nonsp : j <= i)
    IN  [i \in DOMAIN t |-> LowerChar(t[i])]

\* str.lower()
Lower(s) == [i \in DOMAIN s |-> LowerChar(s[i])]

\* s[a..b] (1-based, inclusive), empty when b < a
Slice(s, a, b) == IF b < a THEN <<>> ELSE SubSeq(s, a, b)

\* str.strip()
Strip(s) ==
    LET nonsp == {i \in DOMAIN s : ~IsSpace(s[i])}
    IN  IF nonsp = {} THEN <<>>
        ELSE LET a == CHOOSE i \in nonsp : \A j \in nonsp : i <= j
                 b == CHOOSE i \in nonsp : \A j \in nonsp : j <= i
             IN  SubSeq(s, a, b)

\* needle in hay
Contains(hay, needle) ==
    \E i \in 1..(Len(hay) - Len(needle) + 1) :
        SubSeq(hay, i, i + Len(needle) - 1) = needle

\* the first position >= i of s whose character fails pred, Len(s)+1 if none
RECURSIVE SkipSpaces(_, _)
SkipSpaces(s, i) ==
    IF i <= Len(s) /\ IsSpace(s[i]) THEN SkipSpaces(s, i + 1) ELSE i

RECURSIVE SkipAmountChars(_, _)
SkipAmountChars(s, i) ==
    IF i <= Len(s) /\ IsAmountChar(s[i]) THEN SkipAmountChars(s, i + 1) ELSE i

RECURSIVE SkipDigits(_, _)
SkipDigits(s, i) ==
    IF i <= Len(s) /\ IsDigit(s[i]) THEN SkipDigits(s, i + 1) ELSE i

RECURSIVE SkipWordOrSpace(_, _)
SkipWordOrSpace(s, i) ==
    IF i <= Len(s) /\ (IsWord(s[i]) \/ IsSpace(s[i])) THEN SkipWordOrSpace(s, i + 1) ELSE i


\* the least element of a non-empty set of integers
Min(S) == CHOOSE x \in S : \A y \in S : x <= y

RECURSIVE DigitsVal(_)
DigitsVal(s) ==
    IF s = <<>> THEN 0
    ELSE DigitsVal(SubSeq(s, 1, Len(s) - 1)) * 10 + DigitVal(s[Len(s)])

RECURSIVE Pow10(_)
Pow10(n) == IF n = 0 THEN 1 ELSE 10 * Pow10(n - 1)

\* str.replace(c, ''): s without the characters of drop
RECURSIVE RemoveChars(_, _)
RemoveChars(s, drop) ==
    IF s = <<>> THEN <<>>
    ELSE IF s[1] \in drop THEN RemoveChars(Tail(s), drop)
    ELSE <<s[1]>> \o RemoveChars(Tail(s), drop)

\* the first index >= from at which needle occurs in hay, 0 if none (str.find)
IndexOf(hay, needle, from) ==
    LET at == {i \in from..(Len(hay) - Len(needle) + 1) :
                  SubSeq(hay, i, i + Len(needle) - 1) = needle}
    IN  IF at = {} THEN 0 ELSE Min(at)

(***************************************************************************)
(* Money: an amount a of the code is the integer a * Scale.                *)
(***************************************************************************)
\* percent of percent (discount, then GST rate), then the CGST/SGST halves
Scale == 100 * 100 * 2


\* float(text), for the texts the amount pattern leaves once the rupee sign and
\* the commas are removed (spaces, digits, at most one '.' followed by digits):
\* the value, or ok = FALSE when float raises ValueError (no digit at all).
ParseFloat(text) ==
    LET t    == Strip(text)
        dots == {i \in DOMAIN t : t[i] = "."}
        d    == IF dots = {} THEN Len(t) + 1 ELSE Min(dots)
        ip   == Slice(t, 1, d - 1)
        fp   == Slice(t, d + 1, Len(t))
    IN  IF /\ Cardinality(dots) <= 1
           /\ \A i \in DOMAIN ip : IsDigit(ip[i])
           /\ \A i \in DOMAIN fp : IsDigit(fp[i])
           /\ Len(ip) + Len(fp) >= 1
        THEN [ok |-> TRUE,
              val |-> DigitsVal(ip) * Scale + (DigitsVal(fp) * Scale) \div Pow10(Len(fp))]
        ELSE [ok |-> FALSE, val |-> 0]

\* float(amount.replace('₹', '').replace(',', ''))
AmountToFloat(amount) == ParseFloat(RemoveChars(amount, {"₹", ","}))

(***************************************************************************)
(* The regular expressions of the step handlers.                           *)
(***************************************************************************)
\* the GST expression matched without regard to letter case
GstMatch_nocase(s) ==
    /\ Len(s) = 15
    /\ \A i \in 1..2 : IsDigit(s[i])
    /\ \A i \in 3..7 : IsUpper(s[i]) \/ IsLower(s[i])
    /\ \A i \in 8..11 : IsDigit(s[i])
    /\ IsUpper(s[12]) \/ IsLower(s[12])
    /\ IsAlnumUpper(s[13]) \/ IsLower(s[13])
    /\ s[14] \in {"Z", "z"}
    /\ IsAlnumUpper(s[15]) \/ IsLower(s[15])

\* a GST step that takes any text for a GST number
GstMatch_any(s) == TRUE

\* ^[0-9]{2}[A-Z]{5}[0-9]{4}[A-Z]{1}[0-9A-Z]{1}[Z]{1}[0-9A-Z]{1}$
GstMatch(s) ==
    /\ Len(s) = 15
    /\ \A i \in 1..2 : IsDigit(s[i])
    /\ \A i \in 3..7 : IsUpper(s[i])
    /\ \A i \in 8..11 : IsDigit(s[i])
    /\ IsUpper(s[12])
    /\ IsAlnumUpper(s[13])
    /\ s[14] = "Z"
    /\ IsAlnumUpper(s[15])

\* ₹\s*[\d,]+(?:\.\d+)? matched at position i: the position after the match,
\* 0 when it does not match there
AmountEndAt(s, i) ==
    IF i > Len(s) \/ i < 1 THEN 0
    ELSE IF s[i] # "₹" THEN 0
    ELSE LET j == SkipSpaces(s, i + 1)
             k == SkipAmountChars(s, j)
         IN  IF k = j THEN 0
             ELSE IF k + 1 <= Len(s) /\ s[k] = "." /\ IsDigit(s[k + 1])
                  THEN SkipDigits(s, k + 1)
                  ELSE k

\* re.search(r'(₹\s*[\d,]+(?:\.\d+)?)', s): group(1), or no match
AmountSearch(s) ==
    LET at == {i \in DOMAIN s : AmountEndAt(s, i) > 0}
    IN  IF at = {} THEN [found |-> FALSE, text |-> <<>>, start |-> 0]
        ELSE LET i == Min(at)
             IN  [found |-> TRUE, text |-> SubSeq(s, i, AmountEndAt(s, i) - 1), start |-> i]

\* re.findall(r'([\w\s]+)\s*(₹\s*[\d,]+(?:\.\d+)?)', s) from position p on:
\* the sequence of <<item_text, amount>> pairs
RECURSIVE ItemsFindallFrom(_, _)
ItemsFindallFrom(s, p) ==
    LET at == {i \in p..Len(s) :
                  /\ IsWord(s[i]) \/ IsSpace(s[i])
                  /\ AmountEndAt(s, SkipWordOrSpace(s, i)) > 0}
    IN  IF at = {} THEN <<>>
        ELSE LET i == Min(at)
                 j == SkipWordOrSpace(s, i)
                 e == AmountEndAt(s, j)
             IN  <<[text |-> SubSeq(s, i, j - 1), amount |-> SubSeq(s, j, e - 1)]>>
                 \o ItemsFindallFrom(s, e)

ItemsFindall(s) == ItemsFindallFrom(s, 1)


(***************************************************************************)
(* Dates.  The calendar date of the run is fixed: the model's clock spans  *)
(* a few hours.                                                            *)
(***************************************************************************)
TodayText == <<"2","0","2","5","-","0","4","-","0","5">>

IsDateSep(c) == c \in {"/", "-"}

\* \d{1,2} followed by [/\-] at position i: the number of digits, 0 if no match
DigitsThenSep(s, i) ==
    IF i + 2 <= Len(s) /\ IsDigit(s[i]) /\ IsDigit(s[i + 1]) /\ IsDateSep(s[i + 2]) THEN 2
    ELSE IF i + 1 <= Len(s) /\ IsDigit(s[i]) /\ IsDateSep(s[i + 1]) THEN 1
    ELSE 0

\* the number of digits at position i, at most max
DigitRun(s, i, max) ==
    LET e == SkipDigits(s, i) IN IF e - i > max THEN max ELSE e - i

NoGroups == [found |-> FALSE, g1 |-> <<>>, g2 |-> <<>>, g3 |-> <<>>]

\* re.search(r'(\d{1,2})[/\-](\d{1,2})[/\-](\d{2,4})', s)
DatePattern1(s) ==
    LET ok(i) == LET a == DigitsThenSep(s, i)
                     b == IF a = 0 THEN 0 ELSE DigitsThenSep(s, i + a + 1)
                 IN  a > 0 /\ b > 0 /\ DigitRun(s, i + a + b + 2, 4) >= 2
        at == {i \in DOMAIN s : ok(i)}
    IN  IF at = {} THEN NoGroups
        ELSE LET i == Min(at)
                 a == DigitsThenSep(s, i)
                 b == DigitsThenSep(s, i + a + 1)
                 c == DigitRun(s, i + a + b + 2, 4)
             IN  [found |-> TRUE,
                  g1 |-> SubSeq(s, i, i + a - 1),
                  g2 |-> SubSeq(s, i + a + 1, i + a + b),
                  g3 |-> SubSeq(s, i + a + b + 2, i + a + b + c + 1)]

\* re.search(r'(\d{4})[/\-](\d{1,2})[/\-](\d{1,2})', s)
DatePattern2(s) ==
    LET ok(i) == /\ i + 4 <= Len(s)
                 /\ \A k \in i..(i + 3) : IsDigit(s[k])
                 /\ IsDateSep(s[i + 4])
                 /\ DigitsThenSep(s, i + 5) > 0
                 /\ DigitRun(s, i + 6 + DigitsThenSep(s, i + 5), 2) >= 1
        at == {i \in DOMAIN s : ok(i)}
    IN  IF at = {} THEN NoGroups
        ELSE LET i == Min(at)
                 b == DigitsThenSep(s, i + 5)
                 c == DigitRun(s, i + 6 + b, 2)
             IN  [found |-> TRUE,
                  g1 |-> SubSeq(s, i, i + 3),
                  g2 |-> SubSeq(s, i + 5, i + 4 + b),
                  g3 |-> SubSeq(s, i + 6 + b, i + 5 + b + c)]

\* f"{n:02d}"
Format02(n) ==
    IF n < 10 THEN <<"0", DigitChars[n + 1]>>
    ELSE <<DigitChars[(n \div 10) + 1], DigitChars[(n % 10) + 1]>>

None == <<"None">>

\* the body of the loop over date_patterns for one match: day, month, year =
\* match.groups(); the date text, or prev when the day/month check fails
DateFromGroups(m, prev) ==
    IF ~m.found THEN prev
    ELSE LET year  == IF Len(m.g3) = 2 THEN <<"2", "0">> \o m.g3 ELSE m.g3
             day   == DigitsVal(m.g1)
             month == DigitsVal(m.g2)
         IN  IF 1 <= day /\ day <= 31 /\ 1 <= month /\ month <= 12
             THEN year \o <<"-">> \o Format02(month) \o <<"-">> \o Format02(day)
             ELSE prev

\* the date a date step derives from the message, None when it re-prompts
ParseStepDate(message) ==
    LET date_str == Lower(Strip(message))
    IN  IF date_str = <<"t","o","d","a","y">> THEN TodayText
        ELSE IF date_str = <<"y","e","s","t","e","r","d","a","y">> THEN <<"2","0","2","5","-","0","4","-","0","4">>
        ELSE DateFromGroups(DatePattern2(date_str),
                            DateFromGroups(DatePattern1(date_str), None))

IsLeap(y) == y % 4 = 0 /\ (y % 100 # 0 \/ y % 400 = 0)

DaysInMonth(y, m) ==
    IF m = 2 THEN (IF IsLeap(y) THEN 29 ELSE 28)
    ELSE IF m \in {4, 6, 9, 11} THEN 30 ELSE 31

\* datetime.strptime(d + " 00:00:00", "%Y-%m-%d %H:%M:%S") succeeds, for a text
\* d of at most 10 characters: %Y is exactly four digits, %m and %d one or two
StrptimeOk(d) ==
    LET dashes == {i \in DOMAIN d : d[i] = "-"}
    IN  /\ Cardinality(dashes) = 2
        /\ LET p1 == Min(dashes)
               p2 == Min(dashes \ {p1})
               ys == Slice(d, 1, p1 - 1)
               ms == Slice(d, p1 + 1, p2 - 1)
               ds == Slice(d, p2 + 1, Len(d))
           IN  /\ Len(ys) = 4 /\ Len(ms) \in {1, 2} /\ Len(ds) \in {1, 2}
               /\ \A i \in DOMAIN ys : IsDigit(ys[i])
               /\ \A i \in DOMAIN ms : IsDigit(ms[i])
               /\ \A i \in DOMAIN ds : IsDigit(ds[i])
               /\ DigitsVal(ys) >= 1
               /\ DigitsVal(ms) \in 1..12
               /\ DigitsVal(ds) \in 1..DaysInMonth(DigitsVal(ys), DigitsVal(ms))


(***************************************************************************)
(* Python values.  None is <<"None">>, which no text equals (a text is a   *)
(* sequence of single characters); a dict is a function on its keys.       *)
(***************************************************************************)
EmptyDict == [k \in {} |-> 0]

\* d.get(k, default)
Get(d, k, default) == IF k \in DOMAIN d THEN d[k] ELSE default

\* truth value of a text or None
Truthy(v) == v # None /\ v # <<>>

\* a or b
Or(a, b) == IF Truthy(a) THEN a ELSE b

\* datetime.now().strftime("%Y-%m-%d %H:%M:%S") at clock t (milliseconds since
\* the midnight that starts the run)
NowText(t) ==
    LET sec == t \div 1000
    IN  TodayText \o <<" ">> \o Format02(sec \div 3600) \o <<":">>
        \o Format02((sec % 3600) \div 60) \o <<":">> \o Format02(sec % 60)

(***************************************************************************)
(* utils/session_manager.py                                                *)
(***************************************************************************)
SESSION_TIMEOUT == 1800

IDLE == "idle"
INVOICE_CREATION == "invoice"
EXPENSE_RECORDING == "expense"
PAYMENT_RECORDING == "payment"

\* f"session_{int(time.time() * 1000)}"
SessionId(t) == <<"session", t>>

InStore(S, session_id) == session_id # None /\ session_id \in DOMAIN S

NewSession(t) ==
    [state |-> IDLE, data |-> EmptyDict, created_at |-> t, last_updated |-> t]

\* create_session(): the store afterwards; the id returned is SessionId(t)
create_session(S, t) == (SessionId(t) :> NewSession(t)) @@ S

\* expiry measured from the creation of the session
Expired_from_creation(session, t) == (t - session.created_at) > SESSION_TIMEOUT * 1000

Expired(session, t) == (t - session.last_updated) > SESSION_TIMEOUT * 1000

\* get_session(session_id): whether a session is returned
get_session_found(S, session_id, t) ==
    InStore(S, session_id) /\ ~Expired(S[session_id], t)

\* get_session that hands out the session with an empty field map
get_session_empties(S, session_id, t) ==
    IF ~InStore(S, session_id) THEN S
    ELSE IF Expired(S[session_id], t)
         THEN [k \in DOMAIN S \ {session_id} |-> S[k]]
         ELSE [S EXCEPT ![session_id].last_updated = t, ![session_id].data = EmptyDict]

\* get_session(session_id): the store afterwards
get_session(S, session_id, t) ==
    IF ~InStore(S, session_id) THEN S
    ELSE IF Expired(S[session_id], t)
         THEN [k \in DOMAIN S \ {session_id} |-> S[k]]
         ELSE [S EXCEPT ![session_id].last_updated = t]

\* update_session that creates the session when the id is not in the store
update_session_upserts(S, session_id, state, data, t) ==
    LET S0 == IF session_id \in DOMAIN S THEN S ELSE (session_id :> NewSession(t)) @@ S
    IN  [S0 EXCEPT ![session_id] =
            [state |-> IF state # "" THEN state ELSE @.state,
             data |-> IF DOMAIN data # {} THEN data @@ @.data ELSE @.data,
             created_at |-> @.created_at,
             last_updated |-> t]]

\* update_session that stores the step notes where the patch says date
update_session_skips_date(S, session_id, state, data, t) ==
    IF ~InStore(S, session_id) THEN S
    ELSE [S EXCEPT ![session_id] =
             [state |-> IF state # "" THEN state ELSE @.state,
              data |-> IF DOMAIN data = {} THEN @.data
                       ELSE [k \in DOMAIN data |->
                                IF k = "current_step" /\ data[k] = "date" THEN "notes"
                                ELSE data[k]] @@ @.data,
              created_at |-> @.created_at,
              last_updated |-> t]]

\* update_session with the data dict assigned instead of merged
update_session_replaces(S, session_id, state, data, t) ==
    IF ~InStore(S, session_id) THEN S
    ELSE [S EXCEPT ![session_id] =
             [state |-> IF state # "" THEN state ELSE @.state,
              data |-> IF DOMAIN data # {} THEN data ELSE @.data,
              created_at |-> @.created_at,
              last_updated |-> t]]

\* update_session(session_id, state, data): the store afterwards; state = ""
\* and data = {} stand for the omitted (falsy) arguments
update_session(S, session_id, state, data, t) ==
    IF ~InStore(S, session_id) THEN S
    ELSE [S EXCEPT ![session_id] =
             [state |-> IF state # "" THEN state ELSE @.state,
              data |-> IF DOMAIN data # {} THEN data @@ @.data ELSE @.data,
              created_at |-> @.created_at,
              last_updated |-> t]]

\* update_session(session_id, state, data): the value returned, False when
\* session_id is empty or not a key of SESSIONS
update_session_returns(S, session_id) == InStore(S, session_id)

\* clear_session_data that keeps the step
clear_session_data_keeps_step(S, session_id, t) ==
    IF ~InStore(S, session_id) THEN S
    ELSE [S EXCEPT ![session_id].data =
                       [k \in DOMAIN @ \cap {"current_step"} |-> @[k]],
                   ![session_id].last_updated = t]

\* clear_session_data(session_id): the store afterwards
clear_session_data(S, session_id, t) ==
    IF ~InStore(S, session_id) THEN S
    ELSE [S EXCEPT ![session_id].data = EmptyDict, ![session_id].last_updated = t]

\* clean_expired_sessions that removes a session from 30 minutes of idle time on
clean_expired_sessions_at_timeout(S, t) ==
    [k \in {k \in DOMAIN S : t - S[k].last_updated < SESSION_TIMEOUT * 1000} |-> S[k]]

\* clean_expired_sessions(): the store afterwards
clean_expired_sessions(S, t) ==
    [k \in {k \in DOMAIN S : ~Expired(S[k], t)} |-> S[k]]

\* clean_expired_sessions(): the number it returns
clean_expired_sessions_returns(S, t) ==
    Cardinality({k \in DOMAIN S : Expired(S[k], t)})


(***************************************************************************)
(* utils/data_manager.py: the three JSON files.  A world W is the record   *)
(* [inv, txn, led, unr]: the contents of invoices.json, transactions.json  *)
(* and ledgers.json, and the set of files that no longer parse.            *)
(***************************************************************************)
INVOICES_FILE == "invoices"
TRANSACTIONS_FILE == "transactions"
LEDGERS_FILE == "ledgers"

\* what a write does: "ok"; "fail", open() raises and the file is untouched;
\* "trunc", open(path, 'w') has emptied the file and json.dump raises
WriteOutcomes == {"ok", "fail", "trunc"}

\* load_json_data(file_path): the default structure when json.load raises
load_json_data(W, file_path) ==
    IF file_path = INVOICES_FILE
    THEN (IF file_path \in W.unr THEN <<>> ELSE W.inv)
    ELSE IF file_path = TRANSACTIONS_FILE
    THEN (IF file_path \in W.unr THEN <<>> ELSE W.txn)
    ELSE (IF file_path \in W.unr THEN EmptyDict ELSE W.led)

\* save_json_data(file_path, data) with write outcome w: the world afterwards
\* (the return value is w = "ok")
save_json_data(W, file_path, data, w) ==
    IF w = "fail" THEN W
    ELSE LET content == IF w = "ok" THEN data
                        ELSE IF file_path = LEDGERS_FILE THEN EmptyDict ELSE <<>>
             unr == IF w = "ok" THEN W.unr \ {file_path} ELSE W.unr \cup {file_path}
         IN  [inv |-> IF file_path = INVOICES_FILE THEN content ELSE W.inv,
              txn |-> IF file_path = TRANSACTIONS_FILE THEN content ELSE W.txn,
              led |-> IF file_path = LEDGERS_FILE THEN content ELSE W.led,
              unr |-> unr]

\* generate_id(prefix): the timestamp has one-second granularity
generate_id(prefix, t) == <<prefix, t \div 1000>>

\* update_ledger with a payment added to the balance instead of subtracted
update_ledger_payment_adds(W, name, entry_type, amount, reason, date, w) ==
    LET data == load_json_data(W, LEDGERS_FILE)
        old == IF name \in DOMAIN data THEN data[name]
               ELSE [entries |-> <<>>, balance |-> 0]
        entry == [type |-> entry_type, amount |-> amount, reason |-> reason, date |-> date]
        updated == (name :> [entries |-> Append(old.entries, entry),
                             balance |-> IF entry_type \in {"invoice", "payment"}
                                         THEN old.balance + amount
                                         ELSE old.balance]) @@ data
    IN  save_json_data(W, LEDGERS_FILE, updated, w)

\* update_ledger(name, entry_type, amount, reason, date): the world afterwards
update_ledger(W, name, entry_type, amount, reason, date, w) ==
    LET data == load_json_data(W, LEDGERS_FILE)
        old == IF name \in DOMAIN data THEN data[name]
               ELSE [entries |-> <<>>, balance |-> 0]
        new_balance == IF entry_type = "invoice" THEN old.balance + amount
                       ELSE IF entry_type = "payment" THEN old.balance - amount
                       ELSE old.balance
        entry == [type |-> entry_type, amount |-> amount, reason |-> reason, date |-> date]
        updated == (name :> [entries |-> Append(old.entries, entry),
                             balance |-> new_balance]) @@ data
    IN  save_json_data(W, LEDGERS_FILE, updated, w)

PROFESSIONAL_SERVICES ==
    <<"P","r","o","f","e","s","s","i","o","n","a","l"," ","S","e","r","v","i","c","e","s">>
INVOICE_TO == <<"i","n","v","o","i","c","e"," ","t","o">>
CREATE_INVOICE == <<"c","r","e","a","t","e"," ","i","n","v","o","i","c","e">>
DEFAULT_HSN == <<"9","9","8","3">>

\* seller_state of create_invoice: "" unless additional_details is a non-empty dict
SellerState(additional_details) ==
    IF DOMAIN additional_details # {}
    THEN Get(additional_details, "seller_state", <<>>) ELSE <<>>

\* is_interstate = place_of_supply != seller_state
IsInterstate(place_of_supply, additional_details) ==
    place_of_supply # SellerState(additional_details)

\* the amount of an item: its text through float(), or the number the default
\* item carries (key "amount_num"); [ok |-> FALSE] when float() raises
ItemAmount(item) ==
    IF "amount_num" \in DOMAIN item THEN [ok |-> TRUE, val |-> item["amount_num"]]
    ELSE IF "amount" \in DOMAIN item THEN AmountToFloat(item["amount"])
    ELSE [ok |-> TRUE, val |-> 0]

\* a * b / c on the scaled integers, without an intermediate product a * b
MulDiv(a, b, c) == (a \div c) * b + ((a % c) * b) \div c

\* the tax lines of one item with IGST charged on intrastate supplies too
ItemTax_both(item, item_amount, discount_amount, item_gst_rate, is_interstate) ==
    LET taxable_value == item_amount - discount_amount
        item_gst_amount == MulDiv(taxable_value, item_gst_rate, 100)
    IN  [name |-> Get(item, "name", <<"I","t","e","m">>),
         hsn_code |-> Get(item, "hsn_code", DEFAULT_HSN),
         quantity |-> Get(item, "quantity", 1),
         unit |-> Get(item, "unit", <<"U","n","i","t">>),
         rate_per_unit |-> item_amount,
         base_amount |-> item_amount,
         discount |-> Get(item, "discount", 0),
         discount_amount |-> discount_amount,
         taxable_value |-> taxable_value,
         gst_rate |-> item_gst_rate,
         igst_amount |-> item_gst_amount,
         cgst_amount |-> IF is_interstate THEN 0 ELSE item_gst_amount \div 2,
         sgst_amount |-> IF is_interstate THEN 0 ELSE item_gst_amount \div 2,
         gst_amount |-> item_gst_amount,
         total_amount |-> taxable_value + item_gst_amount]

\* the tax lines of one item with the GST taken on the amount before discount
ItemTax_gst_on_base(item, item_amount, discount_amount, item_gst_rate, is_interstate) ==
    LET raw_name == Get(item, "name", <<"I","t","e","m">>)
        quantity == Get(item, "quantity", 1)
        taxable_value == item_amount - discount_amount
        item_gst_amount == MulDiv(item_amount, item_gst_rate, 100)
    IN  [name |-> IF Contains(Lower(raw_name), INVOICE_TO)
                     \/ Contains(Lower(raw_name), CREATE_INVOICE)
                  THEN PROFESSIONAL_SERVICES ELSE raw_name,
         hsn_code |-> Get(item, "hsn_code", DEFAULT_HSN),
         quantity |-> quantity,
         unit |-> Get(item, "unit", <<"U","n","i","t">>),
         rate_per_unit |-> IF quantity > 0 THEN item_amount \div quantity ELSE item_amount,
         base_amount |-> item_amount,
         discount |-> Get(item, "discount", 0),
         discount_amount |-> discount_amount,
         taxable_value |-> taxable_value,
         gst_rate |-> item_gst_rate,
         igst_amount |-> IF is_interstate THEN item_gst_amount ELSE 0,
         cgst_amount |-> IF is_interstate THEN 0 ELSE item_gst_amount \div 2,
         sgst_amount |-> IF is_interstate THEN 0 ELSE item_gst_amount \div 2,
         gst_amount |-> item_gst_amount,
         total_amount |-> taxable_value + item_gst_amount]

\* the tax lines of one item (lines 132-158), from its amount and discount
ItemTax(item, item_amount, discount_amount, item_gst_rate, is_interstate) ==
    LET raw_name == Get(item, "name", <<"I","t","e","m">>)
        quantity == Get(item, "quantity", 1)
        taxable_value == item_amount - discount_amount
        item_gst_amount == MulDiv(taxable_value, item_gst_rate, 100)
    IN  [name |-> IF Contains(Lower(raw_name), INVOICE_TO)
                     \/ Contains(Lower(raw_name), CREATE_INVOICE)
                  THEN PROFESSIONAL_SERVICES ELSE raw_name,
         hsn_code |-> Get(item, "hsn_code", DEFAULT_HSN),
         quantity |-> quantity,
         unit |-> Get(item, "unit", <<"U","n","i","t">>),
         rate_per_unit |-> IF quantity > 0 THEN item_amount \div quantity ELSE item_amount,
         base_amount |-> item_amount,
         discount |-> Get(item, "discount", 0),
         discount_amount |-> discount_amount,
         taxable_value |-> taxable_value,
         gst_rate |-> item_gst_rate,
         igst_amount |-> IF is_interstate THEN item_gst_amount ELSE 0,
         cgst_amount |-> IF is_interstate THEN 0 ELSE item_gst_amount \div 2,
         sgst_amount |-> IF is_interstate THEN 0 ELSE item_gst_amount \div 2,
         gst_amount |-> item_gst_amount,
         total_amount |-> taxable_value + item_gst_amount]

\* the discount of one item (lines 120-130), from its amount
ItemDiscount(item, item_amount, gst_rate, is_interstate) ==
    ItemTax(item, item_amount,
            IF Get(item, "discount", 0) > 0
            THEN MulDiv(item_amount, Get(item, "discount", 0), 100) ELSE 0,
            Get(item, "gst_rate", gst_rate), is_interstate)

\* one pass of the loop "for item in items" of create_invoice, for an item
\* whose amount converts
ProcessItem(item, gst_rate, is_interstate) ==
    ItemDiscount(item, ItemAmount(item).val, gst_rate, is_interstate)

RECURSIVE SumField(_, _)
SumField(seq, f) ==
    IF seq = <<>> THEN 0 ELSE seq[1][f] + SumField(Tail(seq), f)

\* the invoice object with a total that leaves the GST out
InvoiceObject_total_omits_gst(recipient, recipient_gst, sender_gst, custom_invoice_number, place_of_supply, reverse_charge, is_interstate, processed_items, base_total, gst_total, t) ==
    [id |-> generate_id("invoice", t),
     recipient |-> recipient,
     recipient_gst |-> recipient_gst,
     sender_gst |-> sender_gst,
     place_of_supply |-> Or(place_of_supply, <<"N","o","t"," ","S","p","e","c","i","f","i","e","d">>),
     reverse_charge |-> reverse_charge,
     base_amount |-> base_total,
     gst_amount |-> gst_total,
     cgst_amount |-> IF is_interstate THEN 0 ELSE gst_total \div 2,
     sgst_amount |-> IF is_interstate THEN 0 ELSE gst_total \div 2,
     igst_amount |-> IF is_interstate THEN gst_total ELSE 0,
     total_amount |-> base_total,
     items |-> processed_items,
     date |-> NowText(t),
     status |-> "pending"]

\* the invoice object (lines 203-222), from the processed items and the totals
\* the loop accumulated; due_date and details, which no operation reads back,
\* are left out
InvoiceObject(recipient, recipient_gst, sender_gst, custom_invoice_number, place_of_supply, reverse_charge, is_interstate, processed_items, base_total, gst_total, t) ==
    [id |-> IF Truthy(custom_invoice_number) THEN custom_invoice_number
            ELSE generate_id("invoice", t),
     recipient |-> recipient,
     recipient_gst |-> recipient_gst,
     sender_gst |-> sender_gst,
     place_of_supply |-> Or(place_of_supply, <<"N","o","t"," ","S","p","e","c","i","f","i","e","d">>),
     reverse_charge |-> reverse_charge,
     base_amount |-> base_total,
     gst_amount |-> gst_total,
     cgst_amount |-> IF is_interstate THEN 0 ELSE gst_total \div 2,
     sgst_amount |-> IF is_interstate THEN 0 ELSE gst_total \div 2,
     igst_amount |-> IF is_interstate THEN gst_total ELSE 0,
     total_amount |-> base_total + gst_total,
     items |-> processed_items,
     date |-> NowText(t),
     status |-> "pending"]

\* the totals of the loop over the items (lines 160-201)
InvoiceTotals(recipient, recipient_gst, sender_gst, custom_invoice_number, place_of_supply, reverse_charge, is_interstate, processed_items, t) ==
    InvoiceObject(recipient, recipient_gst, sender_gst, custom_invoice_number,
                  place_of_supply, reverse_charge, is_interstate, processed_items,
                  SumField(processed_items, "taxable_value"),
                  SumField(processed_items, "gst_amount"), t)

\* the invoice object create_invoice builds (lines 96-222), for items whose
\* amounts all convert
BuildInvoice(recipient, items, recipient_gst, sender_gst, custom_invoice_number, gst_rate, place_of_supply, reverse_charge, additional_details, t) ==
    InvoiceTotals(recipient, recipient_gst, sender_gst, custom_invoice_number,
                  place_of_supply, reverse_charge,
                  IsInterstate(place_of_supply, additional_details),
                  [i \in DOMAIN items |->
                      ProcessItem(items[i], gst_rate,
                                  IsInterstate(place_of_supply, additional_details))],
                  t)

\* the items create_invoice works on: the default item when none is given
EffectiveItems(items, gst_rate, additional_details) ==
    IF items # <<>> THEN items
    ELSE <<[k \in {"name", "amount_num", "gst_rate"} |->
              IF k = "name" THEN Get(additional_details, "reason", <<"S","e","r","v","i","c","e","s">>)
              ELSE IF k = "amount_num"
                   THEN (IF "amount" \in DOMAIN additional_details
                         THEN AmountToFloat(additional_details["amount"]).val ELSE 0)
              ELSE gst_rate]>>

\* the end of create_invoice without the call of update_ledger
StoreInvoice_no_ledger(W, recipient, invoice, t, w1, w2) ==
    IF w1 = "ok"
    THEN [ok |-> TRUE, invoice |-> invoice,
          W |-> save_json_data(W, INVOICES_FILE,
                               Append(load_json_data(W, INVOICES_FILE), invoice), w1)]
    ELSE [ok |-> FALSE, invoice |-> None,
          W |-> save_json_data(W, INVOICES_FILE,
                               Append(load_json_data(W, INVOICES_FILE), invoice), w1)]

\* the end of create_invoice (lines 224-237): the invoice is appended and
\* saved and, when that write succeeds, posted to the recipient's ledger
StoreInvoice(W, recipient, invoice, t, w1, w2) ==
    LET data == Append(load_json_data(W, INVOICES_FILE), invoice)
        reason == IF Len(invoice.items) = 1 THEN invoice.items[1].name
                  ELSE <<"M","u","l","t","i","p","l","e"," ","i","t","e","m","s">>
    IN  IF w1 = "ok"
        THEN [ok |-> TRUE, invoice |-> invoice,
              W |-> update_ledger(save_json_data(W, INVOICES_FILE, data, w1), recipient,
                                  "invoice", invoice.total_amount, reason, NowText(t), w2)]
        ELSE [ok |-> FALSE, invoice |-> None,
              W |-> save_json_data(W, INVOICES_FILE, data, w1)]

\* whether a float() of create_invoice raises ValueError
AmountRaises(items, its, additional_details) ==
    \/ \E i \in DOMAIN its : ~ItemAmount(its[i]).ok
    \/ /\ items = <<>>
       /\ "amount" \in DOMAIN additional_details
       /\ ~AmountToFloat(additional_details["amount"]).ok

\* create_invoice(...): [ok, invoice, W]; ok = FALSE is the return of None.
\* w1 is the outcome of the write of invoices.json, w2 of ledgers.json.
create_invoice(W, recipient, items, recipient_gst, sender_gst, custom_invoice_number, gst_rate, place_of_supply, reverse_charge, additional_details, t, w1, w2) ==
    IF AmountRaises(items, EffectiveItems(items, gst_rate, additional_details),
                    additional_details)
    THEN [ok |-> FALSE, invoice |-> None, W |-> W]
    ELSE StoreInvoice(W, recipient,
                      BuildInvoice(recipient,
                                   EffectiveItems(items, gst_rate, additional_details),
                                   recipient_gst, sender_gst, custom_invoice_number,
                                   gst_rate, place_of_supply, reverse_charge,
                                   additional_details, t),
                      t, w1, w2)

\* the date_str of record_transaction, None when strptime raises
TransactionDate(date, t) ==
    IF date = None THEN NowText(t)
    ELSE IF Len(date) <= 10
         THEN (IF StrptimeOk(date) THEN date \o <<" ","0","0",":","0","0",":","0","0">>
               ELSE None)
         ELSE (IF Len(date) = 19 /\ StrptimeOk(SubSeq(date, 1, 10)) /\ date[11] = " "
                  /\ \A i \in {12, 13, 15, 16, 18, 19} : IsDigit(date[i])
                  /\ date[14] = ":" /\ date[17] = ":"
                  /\ DigitsVal(SubSeq(date, 12, 13)) <= 23
                  /\ DigitsVal(SubSeq(date, 15, 16)) <= 59
                  /\ DigitsVal(SubSeq(date, 18, 19)) <= 59
               THEN date ELSE None)

\* str(n) of a natural number
RECURSIVE NatText(_)
NatText(n) ==
    IF n < 10 THEN <<DigitChars[n + 1]>>
    ELSE NatText(n \div 10) \o <<DigitChars[(n % 10) + 1]>>

\* date_obj.strftime("%Y-%m-%d %H:%M:%S") of the date_str strptime accepted:
\* month and day are padded, the year is printed without leading zeros
Strftime(date_str) ==
    LET dashes == {i \in DOMAIN date_str : date_str[i] = "-"}
        p1 == Min(dashes)
        p2 == Min(dashes \ {p1})
        sp == IndexOf(date_str, <<" ">>, 1)
    IN  NatText(DigitsVal(Slice(date_str, 1, p1 - 1))) \o <<"-">>
        \o Format02(DigitsVal(Slice(date_str, p1 + 1, p2 - 1))) \o <<"-">>
        \o Format02(DigitsVal(Slice(date_str, p2 + 1, sp - 1)))
        \o Slice(date_str, sp, Len(date_str))

\* record_transaction posting an expense as a payment entry
record_transaction_expense_as_payment(W, transaction_type, name, amount, category, date, notes, t, w1, w2) ==
    LET value == IF amount = None THEN [ok |-> TRUE, val |-> None]
                 ELSE AmountToFloat(amount)
        date_str == TransactionDate(date, t)
    IN  IF ~value.ok \/ date_str = None THEN [ok |-> FALSE, W |-> W]
        ELSE LET transaction ==
                     [k \in {"id", "type", "amount", "date", "category"} |->
                         IF k = "id" THEN generate_id("transaction", t)
                         ELSE IF k = "type" THEN transaction_type
                         ELSE IF k = "amount" THEN value.val
                         ELSE IF k = "date" THEN date_str
                         ELSE Or(category, <<"U","n","c","a","t","e","g","o","r","i","z","e","d">>)]
                     @@ (IF Truthy(name) THEN "name" :> name ELSE EmptyDict)
                     @@ (IF Truthy(notes) THEN "notes" :> notes ELSE EmptyDict)
                 data == Append(load_json_data(W, TRANSACTIONS_FILE), transaction)
                 W1 == save_json_data(W, TRANSACTIONS_FILE, data, w1)
             IN  IF w1 # "ok" THEN [ok |-> FALSE, W |-> W1]
                 ELSE IF Truthy(name) /\ amount = None
                 THEN [ok |-> transaction_type = "income", W |-> W1]
                 ELSE IF Truthy(name) /\ transaction_type = "income"
                 THEN [ok |-> TRUE,
                       W |-> update_ledger(W1, name, "payment", value.val,
                                           Or(category, notes), Strftime(date_str), w2)]
                 ELSE IF Truthy(name) /\ transaction_type = "expense"
                 THEN [ok |-> TRUE,
                       W |-> update_ledger(W1, name, "payment", 0 - value.val,
                                           Or(category, notes), Strftime(date_str), w2)]
                 ELSE [ok |-> TRUE, W |-> W1]

\* record_transaction posting an expense with the amount as it is, not negated
record_transaction_expense_positive(W, transaction_type, name, amount, category, date, notes, t, w1, w2) ==
    LET value == IF amount = None THEN [ok |-> TRUE, val |-> None]
                 ELSE AmountToFloat(amount)
        date_str == TransactionDate(date, t)
    IN  IF ~value.ok \/ date_str = None THEN [ok |-> FALSE, W |-> W]
        ELSE LET transaction ==
                     [k \in {"id", "type", "amount", "date", "category"} |->
                         IF k = "id" THEN generate_id("transaction", t)
                         ELSE IF k = "type" THEN transaction_type
                         ELSE IF k = "amount" THEN value.val
                         ELSE IF k = "date" THEN date_str
                         ELSE Or(category, <<"U","n","c","a","t","e","g","o","r","i","z","e","d">>)]
                     @@ (IF Truthy(name) THEN "name" :> name ELSE EmptyDict)
                     @@ (IF Truthy(notes) THEN "notes" :> notes ELSE EmptyDict)
                 data == Append(load_json_data(W, TRANSACTIONS_FILE), transaction)
                 W1 == save_json_data(W, TRANSACTIONS_FILE, data, w1)
             IN  IF w1 # "ok" THEN [ok |-> FALSE, W |-> W1]
                 ELSE IF Truthy(name) /\ amount = None
                 THEN [ok |-> transaction_type = "income", W |-> W1]
                 ELSE IF Truthy(name) /\ transaction_type = "income"
                 THEN [ok |-> TRUE,
                       W |-> update_ledger(W1, name, "payment", value.val,
                                           Or(category, notes), Strftime(date_str), w2)]
                 ELSE IF Truthy(name) /\ transaction_type = "expense"
                 THEN [ok |-> TRUE,
                       W |-> update_ledger(W1, name, "invoice", value.val,
                                           Or(category, notes), Strftime(date_str), w2)]
                 ELSE [ok |-> TRUE, W |-> W1]

\* record_transaction(transaction_type, name, amount, category, date, notes):
\* [ok, W]; w1 is the outcome of the write of transactions.json, w2 of ledgers.json.
\* An amount of None is not converted and is stored as it is; with a name,
\* "-amount" then raises for an expense (False is returned) and update_ledger
\* raises inside its own try for an income (its False is not looked at).
record_transaction(W, transaction_type, name, amount, category, date, notes, t, w1, w2) ==
    LET value == IF amount = None THEN [ok |-> TRUE, val |-> None]
                 ELSE AmountToFloat(amount)
        date_str == TransactionDate(date, t)
    IN  IF ~value.ok \/ date_str = None THEN [ok |-> FALSE, W |-> W]
        ELSE LET transaction ==
                     [k \in {"id", "type", "amount", "date", "category"} |->
                         IF k = "id" THEN generate_id("transaction", t)
                         ELSE IF k = "type" THEN transaction_type
                         ELSE IF k = "amount" THEN value.val
                         ELSE IF k = "date" THEN date_str
                         ELSE Or(category, <<"U","n","c","a","t","e","g","o","r","i","z","e","d">>)]
                     @@ (IF Truthy(name) THEN "name" :> name ELSE EmptyDict)
                     @@ (IF Truthy(notes) THEN "notes" :> notes ELSE EmptyDict)
                 data == Append(load_json_data(W, TRANSACTIONS_FILE), transaction)
                 W1 == save_json_data(W, TRANSACTIONS_FILE, data, w1)
             IN  IF w1 # "ok" THEN [ok |-> FALSE, W |-> W1]
                 ELSE IF Truthy(name) /\ amount = None
                 THEN [ok |-> transaction_type = "income", W |-> W1]
                 ELSE IF Truthy(name) /\ transaction_type = "income"
                 THEN [ok |-> TRUE,
                       W |-> update_ledger(W1, name, "payment", value.val,
                                           Or(category, notes), Strftime(date_str), w2)]
                 ELSE IF Truthy(name) /\ transaction_type = "expense"
                 THEN [ok |-> TRUE,
                       W |-> update_ledger(W1, name, "invoice", 0 - value.val,
                                           Or(category, notes), Strftime(date_str), w2)]
                 ELSE [ok |-> TRUE, W |-> W1]


(***************************************************************************)
(* utils/conversation_processor.py.  A handler maps the stores to an       *)
(* outcome [S, W, ret]: the session store, the files, and the tuple the    *)
(* handler returns, ret = [kind, session_id, session_state], where kind    *)
(* names the response text.                                                *)
(***************************************************************************)
T_cancel == <<"c","a","n","c","e","l">>
T_exit == <<"e","x","i","t">>
T_quit == <<"q","u","i","t">>
T_stop == <<"s","t","o","p">>
T_end == <<"e","n","d">>
T_skip == <<"s","k","i","p">>
T_confirm == <<"c","o","n","f","i","r","m">>
T_edit == <<"e","d","i","t">>
DELHI == <<"D","e","l","h","i">>

GlobalCancelTokens == {T_cancel, T_exit, T_quit, T_stop, T_end}
StepCancelTokens == {T_cancel, T_exit, T_quit, T_stop}

\* a flow_path that lists place_of_supply before the GST steps
INVOICE_FLOW_PATH_reordered ==
    <<"recipient", "place_of_supply", "recipient_gst", "sender_gst", "items", "confirm">>

INVOICE_FLOW_PATH ==
    <<"recipient", "recipient_gst", "sender_gst", "place_of_supply", "items", "confirm">>

Ret(kind, session_id, session_state) ==
    [kind |-> kind, session_id |-> session_id, session_state |-> session_state]

Outcome(S, W, r) == [S |-> S, W |-> W, ret |-> r]

\* the reset without the call of clear_session_data
ResetSession_keeps_data(S, session_id, t) ==
    update_session(S, session_id, IDLE, EmptyDict, t)

\* update_session(session_id, state=IDLE) followed by clear_session_data(session_id)
ResetSession(S, session_id, t) ==
    clear_session_data(update_session(S, session_id, IDLE, EmptyDict, t), session_id, t)

\* the branch process_initial_command takes; "other" is the tax query and the
\* free-text one-shot recorders, which the model does not enter
InitialIntent(message) ==
    LET message_lower == Lower(message)
        has(words) == Contains(message_lower, words)
    IN  IF has(CREATE_INVOICE) \/ has(<<"n","e","w"," ","i","n","v","o","i","c","e">>)
           \/ has(<<"g","e","n","e","r","a","t","e"," ","i","n","v","o","i","c","e">>)
        THEN "invoice"
        ELSE IF has(<<"r","e","c","o","r","d"," ","e","x","p","e","n","s","e">>)
                \/ has(<<"a","d","d"," ","e","x","p","e","n","s","e">>)
                \/ has(<<"n","e","w"," ","e","x","p","e","n","s","e">>)
        THEN "expense"
        ELSE IF has(<<"r","e","c","o","r","d"," ","p","a","y","m","e","n","t">>)
                \/ has(<<"p","a","y","m","e","n","t"," ","r","e","c","e","i","v","e","d">>)
                \/ has(<<"a","d","d"," ","p","a","y","m","e","n","t">>)
        THEN "payment"
        ELSE IF has(<<"s","h","o","w"," ","l","e","d","g","e","r">>)
                \/ has(<<"v","i","e","w"," ","l","e","d","g","e","r">>)
        THEN "view"
        ELSE IF has(<<"e","x","p","e","n","s","e"," ","s","u","m","m","a","r","y">>)
                \/ has(<<"s","h","o","w"," ","e","x","p","e","n","s","e","s">>)
        THEN "view"
        ELSE IF has(<<"s","h","o","w"," ","i","n","v","o","i","c","e">>)
                \/ has(<<"v","i","e","w"," ","i","n","v","o","i","c","e">>)
        THEN "view"
        ELSE IF message_lower = <<"m","e","n","u">> THEN "help"
        ELSE IF message_lower = <<"h","e","l","p">> \/ message_lower = <<"?">> THEN "help"
        ELSE "other"

\* process_initial_command(message, session_id), for a message whose intent is
\* not "other"
process_initial_command(message, session_id, S, W, t) ==
    LET intent == InitialIntent(message)
    IN  IF intent = "invoice"
        THEN Outcome(update_session(clear_session_data(S, session_id, t), session_id,
                                    INVOICE_CREATION,
                                    ("current_step" :> "recipient")
                                    @@ ("flow_path" :> INVOICE_FLOW_PATH), t),
                     W, Ret("start", session_id, INVOICE_CREATION))
        ELSE IF intent = "expense"
        THEN Outcome(update_session(S, session_id, EXPENSE_RECORDING,
                                    "current_step" :> "amount", t),
                     W, Ret("start", session_id, EXPENSE_RECORDING))
        ELSE IF intent = "payment"
        THEN Outcome(update_session(S, session_id, PAYMENT_RECORDING,
                                    "current_step" :> "from_party", t),
                     W, Ret("start", session_id, PAYMENT_RECORDING))
        ELSE Outcome(S, W, Ret(intent, session_id, IDLE))

\* one entry of the items list the items step builds
FlowItem(item_name, amount) ==
    [k \in {"name", "amount", "gst_rate", "hsn_code", "quantity", "unit"} |->
        IF k = "name" THEN item_name
        ELSE IF k = "amount" THEN amount
        ELSE IF k = "gst_rate" THEN 18
        ELSE IF k = "hsn_code" THEN DEFAULT_HSN
        ELSE IF k = "quantity" THEN 1
        ELSE <<"S","e","r","v","i","c","e">>]

\* the item name of the items step when only a bare amount matched
\* (lines 378-390): the text before the amount, else "for <text>" after it
BareAmountItemName(message, amount) ==
    LET at     == IndexOf(message, amount, 1)
        before == Slice(message, 1, at - 1)
        next   == IndexOf(message, amount, at + Len(amount))
        after  == Strip(Slice(message, at + Len(amount),
                              IF next = 0 THEN Len(message) ELSE next - 1))
        k      == SkipSpaces(after, 4)
    IN  IF Strip(before) # <<>> THEN Strip(before)
        ELSE IF /\ after # <<>>
                /\ Len(after) >= 3 /\ Lower(SubSeq(after, 1, 3)) = <<"f","o","r">>
                /\ k > 4 /\ k <= Len(after)
             THEN Strip(Slice(after, k, Len(after)))
             ELSE PROFESSIONAL_SERVICES

\* the items list of the items step (lines 370-443), <<>> when it re-prompts
ParseItems(message) ==
    LET amounts == ItemsFindall(message)
        amount_match == AmountSearch(message)
    IN  IF amounts # <<>>
        THEN [i \in DOMAIN amounts |-> FlowItem(Strip(amounts[i].text), amounts[i].amount)]
        ELSE IF amount_match.found
             THEN <<FlowItem(BareAmountItemName(message, Strip(amount_match.text)),
                             Strip(amount_match.text))>>
             ELSE <<>>

state_map ==
    (<<"0","1">> :> <<"J","a","m","m","u"," ","a","n","d"," ","K","a","s","h","m","i","r">>)
    @@ (<<"0","2">> :> <<"H","i","m","a","c","h","a","l"," ","P","r","a","d","e","s","h">>)
    @@ (<<"0","3">> :> <<"P","u","n","j","a","b">>)
    @@ (<<"0","4">> :> <<"C","h","a","n","d","i","g","a","r","h">>)
    @@ (<<"0","5">> :> <<"U","t","t","a","r","a","k","h","a","n","d">>)
    @@ (<<"0","6">> :> <<"H","a","r","y","a","n","a">>)
    @@ (<<"0","7">> :> <<"D","e","l","h","i">>)
    @@ (<<"0","8">> :> <<"R","a","j","a","s","t","h","a","n">>)
    @@ (<<"0","9">> :> <<"U","t","t","a","r"," ","P","r","a","d","e","s","h">>)
    @@ (<<"1","0">> :> <<"B","i","h","a","r">>)
    @@ (<<"1","1">> :> <<"S","i","k","k","i","m">>)
    @@ (<<"1","2">> :> <<"A","r","u","n","a","c","h","a","l"," ","P","r","a","d","e","s","h">>)
    @@ (<<"1","3">> :> <<"N","a","g","a","l","a","n","d">>)
    @@ (<<"1","4">> :> <<"M","a","n","i","p","u","r">>)
    @@ (<<"1","5">> :> <<"M","i","z","o","r","a","m">>)
    @@ (<<"1","6">> :> <<"T","r","i","p","u","r","a">>)
    @@ (<<"1","7">> :> <<"M","e","g","h","a","l","a","y","a">>)
    @@ (<<"1","8">> :> <<"A","s","s","a","m">>)
    @@ (<<"1","9">> :> <<"W","e","s","t"," ","B","e","n","g","a","l">>)
    @@ (<<"2","0">> :> <<"J","h","a","r","k","h","a","n","d">>)
    @@ (<<"2","1">> :> <<"O","d","i","s","h","a">>)
    @@ (<<"2","2">> :> <<"C","h","h","a","t","t","i","s","g","a","r","h">>)
    @@ (<<"2","3">> :> <<"M","a","d","h","y","a"," ","P","r","a","d","e","s","h">>)
    @@ (<<"2","4">> :> <<"G","u","j","a","r","a","t">>)
    @@ (<<"2","7">> :> <<"M","a","h","a","r","a","s","h","t","r","a">>)
    @@ (<<"2","9">> :> <<"K","a","r","n","a","t","a","k","a">>)
    @@ (<<"3","0">> :> <<"G","o","a">>)
    @@ (<<"3","2">> :> <<"K","e","r","a","l","a">>)
    @@ (<<"3","3">> :> <<"T","a","m","i","l"," ","N","a","d","u">>)
    @@ (<<"3","4">> :> <<"P","u","d","u","c","h","e","r","r","y">>)
    @@ (<<"3","6">> :> <<"T","e","l","a","n","g","a","n","a">>)
    @@ (<<"3","7">> :> <<"A","n","d","h","r","a"," ","P","r","a","d","e","s","h">>)

\* additional_details without a seller_state
ConfirmDetails_no_seller_state(data) ==
    "invoice_notes" :> <<"T","h","a","n","k","s">>

\* additional_details of the confirm step (lines 547-572)
ConfirmDetails(data) ==
    LET sender_gst == Get(data, "sender_gst", None)
    IN  "seller_state" :>
            (IF Truthy(sender_gst) /\ Len(sender_gst) >= 2
             THEN Get(state_map, SubSeq(sender_gst, 1, 2), DELHI)
             ELSE DELHI)


\* the end of the confirm step of the invoice flow (lines 585-604), res being
\* what create_invoice returned
InvoiceConfirmed(S, session_id, t, res) ==
    IF res.ok
    THEN Outcome(ResetSession(S, session_id, t), res.W, Ret("created", session_id, IDLE))
    ELSE Outcome(S, res.W, Ret("failed", session_id, IDLE))

\* process_invoice_step(message, session_id)
process_invoice_step(message, session_id, S, W, t, w1, w2) ==
    LET found == get_session_found(S, session_id, t)
        data == IF found THEN S[session_id].data ELSE EmptyDict
        current_step == Get(data, "current_step", "recipient")
        text == Strip(message)
        stay(kind) == Outcome(S, W, Ret(kind, session_id, INVOICE_CREATION))
        go(patch, kind) == Outcome(update_session(S, session_id, "", patch, t), W,
                                   Ret(kind, session_id, INVOICE_CREATION))
        reset(kind) == Outcome(ResetSession(S, session_id, t), W,
                               Ret(kind, session_id, IDLE))
    IN  IF ~found \/ DOMAIN data = {}
        THEN Outcome(update_session(S, session_id, IDLE, EmptyDict, t), W,
                     Ret("lost_track", session_id, IDLE))
        ELSE IF Lower(message) \in StepCancelTokens THEN reset("invoice_cancelled")
        ELSE IF current_step = "recipient"
        THEN go(("recipient" :> text) @@ ("current_step" :> "recipient_gst"), "prompt")
        ELSE IF current_step = "recipient_gst"
        THEN IF Lower(message) = T_skip
             THEN go("current_step" :> "sender_gst", "prompt")
             ELSE IF ~GstMatch(text) THEN stay("reprompt")
             ELSE go(("recipient_gst" :> text) @@ ("current_step" :> "sender_gst"), "prompt")
        ELSE IF current_step = "sender_gst"
        THEN IF Lower(message) = T_skip
             THEN go("current_step" :> "place_of_supply", "prompt")
             ELSE IF ~GstMatch(text) THEN stay("reprompt")
             ELSE go(("sender_gst" :> text) @@ ("current_step" :> "place_of_supply"),
                     "prompt")
        ELSE IF current_step = "place_of_supply"
        THEN go(("place_of_supply" :> text) @@ ("current_step" :> "items"), "prompt")
        ELSE IF current_step = "items"
        THEN IF ParseItems(message) = <<>> THEN stay("reprompt")
             ELSE go(("items" :> ParseItems(message)) @@ ("current_step" :> "confirm"),
                     "confirmation")
        ELSE IF current_step = "confirm"
        THEN IF Lower(message) = T_confirm
             THEN InvoiceConfirmed(S, session_id, t,
                      create_invoice(W, Get(data, "recipient", None),
                                     Get(data, "items", <<>>),
                                     Get(data, "recipient_gst", None),
                                     Get(data, "sender_gst", None),
                                     None, 18,
                                     Get(data, "place_of_supply", None),
                                     FALSE, ConfirmDetails(data), t, w1, w2))
             ELSE IF Lower(message) = T_edit
             THEN go("current_step" :> "recipient", "edit")
             ELSE stay("reprompt")
        ELSE reset("unknown_step")

\* the end of the confirm step of the expense and payment flows (lines 796-821
\* and 986-1011): the session is reset before the result is looked at
TransactionConfirmed(S, session_id, t, res) ==
    Outcome(ResetSession(S, session_id, t), res.W,
            Ret(IF res.ok THEN "recorded" ELSE "failed", session_id, IDLE))

\* process_expense_step(message, session_id) from line 659 on, current_step
\* being what line 657 read from the session
process_expense_step_at(current_step, message, session_id, S, W, t, w1, w2) ==
    LET data == S[session_id].data
        text == Strip(message)
        amount_match == AmountSearch(message)
        expense_date == ParseStepDate(message)
        stay(kind) == Outcome(S, W, Ret(kind, session_id, EXPENSE_RECORDING))
        go(patch, kind) == Outcome(update_session(S, session_id, "", patch, t), W,
                                   Ret(kind, session_id, EXPENSE_RECORDING))
        reset(kind) == Outcome(ResetSession(S, session_id, t), W,
                               Ret(kind, session_id, IDLE))
    IN  IF Lower(message) \in StepCancelTokens THEN reset("expense_cancelled")
        ELSE IF current_step = "amount"
        THEN IF ~amount_match.found THEN stay("reprompt")
             ELSE go(("amount" :> Strip(amount_match.text)) @@ ("current_step" :> "date"),
                     "prompt")
        ELSE IF current_step = "date"
        THEN IF expense_date = None THEN stay("reprompt")
             ELSE go(("date" :> expense_date) @@ ("current_step" :> "category"), "prompt")
        ELSE IF current_step = "category"
        THEN go(("category" :> text) @@ ("current_step" :> "vendor"), "prompt")
        ELSE IF current_step = "vendor"
        THEN IF Lower(message) # T_skip
             THEN go(("vendor" :> text) @@ ("current_step" :> "notes"), "prompt")
             ELSE go("current_step" :> "notes", "prompt")
        ELSE IF current_step = "notes"
        THEN IF Lower(message) # T_skip
             THEN go(("notes" :> text) @@ ("current_step" :> "confirm"), "confirmation")
             ELSE go("current_step" :> "confirm", "confirmation")
        ELSE IF current_step = "confirm"
        THEN IF Lower(message) = T_confirm
             THEN TransactionConfirmed(S, session_id, t,
                      record_transaction(W, "expense",
                                         Get(data, "vendor", None),
                                         Get(data, "amount", None),
                                         Get(data, "category", None),
                                         Get(data, "date", None),
                                         Get(data, "notes", None), t, w1, w2))
             ELSE IF Lower(message) = T_edit
             THEN go("current_step" :> "amount", "edit")
             ELSE stay("reprompt")
        ELSE reset("unknown_step")

\* process_expense_step classifying the intent of the message before the step
process_expense_step_classifies(message, session_id, S, W, t, w1, w2) ==
    IF InitialIntent(message) \in {"invoice", "expense", "payment"}
    THEN process_initial_command(message, session_id, S, W, t)
    ELSE process_expense_step_at(Get(S[session_id].data, "current_step", "amount"),
                                 message, session_id, S, W, t, w1, w2)

\* process_expense_step(message, session_id), for a session get_session_data finds
process_expense_step(message, session_id, S, W, t, w1, w2) ==
    process_expense_step_at(Get(S[session_id].data, "current_step", "amount"),
                            message, session_id, S, W, t, w1, w2)

\* process_payment_step(message, session_id), for a session get_session_data finds
process_payment_step(message, session_id, S, W, t, w1, w2) ==
    LET data == S[session_id].data
        current_step == Get(data, "current_step", "from_party")
        text == Strip(message)
        amount_match == AmountSearch(message)
        payment_date == ParseStepDate(message)
        stay(kind) == Outcome(S, W, Ret(kind, session_id, PAYMENT_RECORDING))
        go(patch, kind) == Outcome(update_session(S, session_id, "", patch, t), W,
                                   Ret(kind, session_id, PAYMENT_RECORDING))
        reset(kind) == Outcome(ResetSession(S, session_id, t), W,
                               Ret(kind, session_id, IDLE))
    IN  IF Lower(message) \in StepCancelTokens THEN reset("payment_cancelled")
        ELSE IF current_step = "from_party"
        THEN go(("from_party" :> text) @@ ("current_step" :> "amount"), "prompt")
        ELSE IF current_step = "amount"
        THEN IF ~amount_match.found THEN stay("reprompt")
             ELSE go(("amount" :> Strip(amount_match.text)) @@ ("current_step" :> "date"),
                     "prompt")
        ELSE IF current_step = "date"
        THEN IF payment_date = None THEN stay("reprompt")
             ELSE go(("date" :> payment_date) @@ ("current_step" :> "notes"), "prompt")
        ELSE IF current_step = "notes"
        THEN IF Lower(message) # T_skip
             THEN go(("notes" :> text) @@ ("current_step" :> "confirm"), "confirmation")
             ELSE go("current_step" :> "confirm", "confirmation")
        ELSE IF current_step = "confirm"
        THEN IF Lower(message) = T_confirm
             THEN TransactionConfirmed(S, session_id, t,
                      record_transaction(W, "income",
                                         Get(data, "from_party", None),
                                         Get(data, "amount", None),
                                         Get(data, "notes", <<"P","a","y","m","e","n","t">>),
                                         Get(data, "date", None),
                                         None, t, w1, w2))
             ELSE IF Lower(message) = T_edit
             THEN go("current_step" :> "from_party", "edit")
             ELSE stay("reprompt")
        ELSE reset("unknown_step")

\* process_message(message, session_id) for a text message; InitialIntent of a
\* message handled in the idle state is not "other"
process_message(message, session_id, S, W, t, w1, w2) ==
    IF Lower(message) \in GlobalCancelTokens
    THEN Outcome(IF session_id # None THEN ResetSession(S, session_id, t) ELSE S, W,
                 Ret("cancelled", session_id, IDLE))
    ELSE LET found == get_session_found(S, session_id, t)
             S1 == get_session(S, session_id, t)
             sid == IF found THEN session_id ELSE SessionId(t)
             S2 == IF found THEN S1 ELSE create_session(S1, t)
             current_state == S2[sid].state
         IN  IF current_state = IDLE
             THEN process_initial_command(message, sid, S2, W, t)
             ELSE IF current_state = INVOICE_CREATION
             THEN process_invoice_step(message, sid, S2, W, t, w1, w2)
             ELSE IF current_state = EXPENSE_RECORDING
             THEN process_expense_step(message, sid, S2, W, t, w1, w2)
             ELSE IF current_state = PAYMENT_RECORDING
             THEN process_payment_step(message, sid, S2, W, t, w1, w2)
             ELSE Outcome(update_session(S2, sid, IDLE, EmptyDict, t), W,
                          Ret("unknown_state", sid, IDLE))

\* process_message(message, session_id) for a message that is not a string
\* (the JSON body may carry a number or a list): message.lower() raises and
\* the handler of lines 120-130 runs
process_message_not_text(session_id, S, W, t) ==
    Outcome(IF session_id # None THEN update_session(S, session_id, IDLE, EmptyDict, t)
            ELSE S,
            W, Ret("error", session_id, IDLE))


(***************************************************************************)
(* The messages a client sends.  Each step of a flow is offered inputs it  *)
(* accepts, inputs it rejects, and inputs it accepts but the engine        *)
(* rejects at confirm; rich = FALSE keeps one accepted input per step.     *)
(***************************************************************************)
M_create_invoice == <<"c","r","e","a","t","e"," ","i","n","v","o","i","c","e">>
M_record_expense == <<"r","e","c","o","r","d"," ","e","x","p","e","n","s","e">>
M_record_payment == <<"r","e","c","o","r","d"," ","p","a","y","m","e","n","t">>
M_help == <<"h","e","l","p">>
M_acme == <<"A","c","m","e"," ","C","o">>
OFFICE_MART == <<"O","f","f","i","c","e"," ","M","a","r","t">>
M_blank == <<" ">>
M_hello == <<"h","e","l","l","o">>
M_gstin == <<"2","9","A","B","C","D","E","1","2","3","4","F","1","Z","5">>
M_design == <<"D","e","s","i","g","n"," ","w","o","r","k"," ","₹","1","0",",","0","0","0">>
M_zero == <<"₹","0">>
M_comma == <<"w","o","r","k"," ","₹",",">>
M_two_items == <<"W","e","b"," ","₹","1","0","0",","," ","S","E","O"," ","₹","5","0">>
M_500 == <<"₹","5","0","0">>
M_today == <<"t","o","d","a","y">>
M_feb31 == <<"3","1","/","0","2","/","2","0","2","5">>
M_supplies == <<"S","u","p","p","l","i","e","s">>
M_rent == <<"r","e","n","t">>

CancelMessages(rich) ==
    IF rich THEN {T_cancel, <<"E","X","I","T">>, T_quit, T_stop, <<"E","n","d">>} ELSE {T_cancel}

IdleMenu == {M_create_invoice, M_record_expense, M_record_payment, M_help}

InvoiceMenu(current_step, rich) ==
    IF current_step = "recipient" THEN (IF rich THEN {M_acme, M_blank} ELSE {M_acme})
    ELSE IF current_step = "recipient_gst"
    THEN (IF rich THEN {T_skip, M_gstin, M_acme} ELSE {T_skip})
    ELSE IF current_step = "sender_gst"
    THEN (IF rich THEN {T_skip, M_gstin, Lower(M_gstin)} ELSE {T_skip})
    ELSE IF current_step = "place_of_supply" THEN {DELHI}
    ELSE IF current_step = "items"
    THEN (IF rich THEN {M_design, M_zero, M_comma, M_two_items, M_hello} ELSE {M_design})
    ELSE IF rich THEN {T_confirm, T_edit, M_hello} ELSE {T_confirm, T_edit}

ExpenseMenu(current_step, rich) ==
    IF current_step = "amount"
    THEN (IF rich THEN {M_500, M_zero, M_comma, M_hello} ELSE {M_500})
    ELSE IF current_step = "date"
    THEN (IF rich THEN {M_today, M_feb31, M_hello} ELSE {M_today})
    ELSE IF current_step = "category" THEN {M_supplies}
    ELSE IF current_step = "vendor"
    THEN (IF rich THEN {T_skip, M_acme, M_blank} ELSE {M_acme})
    ELSE IF current_step = "notes"
    THEN (IF rich THEN {T_skip, M_rent, M_create_invoice} ELSE {T_skip})
    ELSE IF rich THEN {T_confirm, T_edit, M_hello} ELSE {T_confirm, T_edit}

PaymentMenu(current_step, rich) ==
    IF current_step = "from_party" THEN (IF rich THEN {M_acme, M_blank} ELSE {M_acme})
    ELSE IF current_step = "amount"
    THEN (IF rich THEN {M_500, M_zero, M_comma, M_hello} ELSE {M_500})
    ELSE IF current_step = "date"
    THEN (IF rich THEN {M_today, M_feb31, M_hello} ELSE {M_today})
    ELSE IF current_step = "notes" THEN (IF rich THEN {T_skip, M_rent} ELSE {T_skip})
    ELSE IF rich THEN {T_confirm, T_edit, M_hello} ELSE {T_confirm, T_edit}

\* the outcomes of the file writes a message can cause: only 'confirm' writes
Writes(message) == IF Lower(message) = T_confirm THEN WriteOutcomes ELSE {"ok"}

(***************************************************************************)
(* State.  SESSIONS is the module-level dict of session_manager; invoices, *)
(* transactions and ledgers are the contents of the three JSON files and   *)
(* unreadable the set of files that no longer parse; now is the clock in   *)
(* milliseconds; ret is the tuple the last call returned.                  *)
(***************************************************************************)
World == [inv |-> invoices, txn |-> transactions, led |-> ledgers, unr |-> unreadable]

\* the requests the server's threads are handling; app.run serves each
\* request in a thread of its own
Threads == {1, 2}

\* a thread that handles no request
FreeRequest ==
    [pc |-> "free", call |-> "", message |-> None, session_id |-> None, step |-> "",
     data |-> EmptyDict, txn |-> <<>>, led |-> EmptyDict, kind |-> "none"]

\* th: what each thread has read so far and where it is; base: the stores
\* when the first of the requests in progress arrived; posted: the ledger
\* writes made so far
NoRequests ==
    [th |-> [t \in Threads |-> FreeRequest],
     base |-> [S |-> EmptyDict,
               W |-> [inv |-> <<>>, txn |-> <<>>, led |-> EmptyDict, unr |-> {}]],
     posted |-> 0]

Init ==
    /\ SESSIONS = EmptyDict
    /\ now = 0
    /\ invoices = <<>>
    /\ transactions = <<>>
    /\ ledgers = EmptyDict
    /\ unreadable = {}
    /\ ret = Ret("none", None, IDLE)
    /\ requests = NoRequests

\* the stores and the returned tuple after a handler ran
Apply(out) ==
    /\ SESSIONS' = out.S
    /\ invoices' = out.W.inv
    /\ transactions' = out.W.txn
    /\ ledgers' = out.W.led
    /\ unreadable' = out.W.unr
    /\ ret' = out.ret
    /\ UNCHANGED <<now, requests>>

RECURSIVE EntryCount(_)
EntryCount(led) ==
    IF DOMAIN led = {} THEN 0
    ELSE LET name == CHOOSE n \in DOMAIN led : TRUE
         IN  Len(led[name].entries)
             + EntryCount([n \in DOMAIN led \ {name} |-> led[n]])

\* the run accepts calls while the files hold fewer than MaxRecords records
\* and fewer than MaxRecords ledger entries
Bounded ==
    /\ Len(invoices) + Len(transactions) < MaxRecords
    /\ EntryCount(ledgers) < MaxRecords

\* the state process_message dispatches on for session_id
DispatchState(session_id) ==
    IF get_session_found(SESSIONS, session_id, now) THEN SESSIONS[session_id].state
    ELSE IDLE

\* current_step of the session process_message dispatches to
DispatchStep(session_id, default) ==
    Get(SESSIONS[session_id].data, "current_step", default)

(***************************************************************************)
(* The conversation: one client, which sends every message with the        *)
(* session id the previous call returned.                                  *)
(***************************************************************************)
Cancel(rich) ==
    /\ Bounded
    /\ \E m \in CancelMessages(rich) :
          \E out \in {process_message(m, ret.session_id, SESSIONS, World, now, "ok", "ok")} :
             Apply(out)

InitialCommand ==
    /\ Bounded
    /\ DispatchState(ret.session_id) = IDLE
    /\ \E m \in IdleMenu :
          \E out \in {process_message(m, ret.session_id, SESSIONS, World, now, "ok", "ok")} :
             Apply(out)

InvoiceStep(rich) ==
    /\ Bounded
    /\ DispatchState(ret.session_id) = INVOICE_CREATION
    /\ \E m \in InvoiceMenu(DispatchStep(ret.session_id, "recipient"), rich) :
          \E w1 \in Writes(m), w2 \in Writes(m) :
             \E out \in {process_message(m, ret.session_id, SESSIONS, World, now, w1, w2)} :
                Apply(out)

ExpenseStep(rich) ==
    /\ Bounded
    /\ DispatchState(ret.session_id) = EXPENSE_RECORDING
    /\ \E m \in ExpenseMenu(DispatchStep(ret.session_id, "amount"), rich) :
          \E w1 \in Writes(m), w2 \in Writes(m) :
             \E out \in {process_message(m, ret.session_id, SESSIONS, World, now, w1, w2)} :
                Apply(out)

PaymentStep(rich) ==
    /\ Bounded
    /\ DispatchState(ret.session_id) = PAYMENT_RECORDING
    /\ \E m \in PaymentMenu(DispatchStep(ret.session_id, "from_party"), rich) :
          \E w1 \in Writes(m), w2 \in Writes(m) :
             \E out \in {process_message(m, ret.session_id, SESSIONS, World, now, w1, w2)} :
                Apply(out)

\* a message whose JSON value is not a string
NonTextMessage ==
    /\ Bounded
    /\ \E out \in {process_message_not_text(ret.session_id, SESSIONS, World, now)} :
          Apply(out)

Next ==
    \/ Cancel(TRUE)
    \/ InitialCommand
    \/ InvoiceStep(TRUE)
    \/ ExpenseStep(TRUE)
    \/ PaymentStep(TRUE)

Spec == Init /\ [][Next]_vars

NextFault ==
    \/ Cancel(FALSE)
    \/ InitialCommand
    \/ InvoiceStep(FALSE)
    \/ ExpenseStep(FALSE)
    \/ PaymentStep(FALSE)
    \/ NonTextMessage

SpecFault == Init /\ [][NextFault]_vars


(***************************************************************************)
(* The session store under a clock that advances: several clients, ids    *)
(* that are absent, unknown or expired, the periodic clean-up, and the web *)
(* route in front of process_message.                                      *)
(***************************************************************************)
BOGUS == <<"bogus">>

SessionMessages == {T_cancel, M_create_invoice}

\* the ids a client can present
ClientIds == DOMAIN SESSIONS \cup {None, BOGUS, ret.session_id}

\* the clock advances by a millisecond or by the session timeout
Tick ==
    \E d \in {1, SESSION_TIMEOUT * 1000} :
       /\ ((now + d) % (SESSION_TIMEOUT * 1000))
            + ((now + d) \div (SESSION_TIMEOUT * 1000)) <= MaxTicks
       /\ now' = now + d
       /\ UNCHANGED <<SESSIONS, invoices, transactions, ledgers, unreadable, ret, requests>>

\* get_session(session_id): "session" when one is returned, "expired" when
\* the session is deleted (lines 52-55), "absent" for the return of line 44
GetSession ==
    \E session_id \in ClientIds :
       /\ SESSIONS' = get_session(SESSIONS, session_id, now)
       /\ ret' = Ret(IF get_session_found(SESSIONS, session_id, now) THEN "session"
                     ELSE IF InStore(SESSIONS, session_id) THEN "expired"
                     ELSE "absent",
                     session_id,
                     IF get_session_found(SESSIONS, session_id, now)
                     THEN SESSIONS[session_id].state ELSE IDLE)
       /\ UNCHANGED <<now, invoices, transactions, ledgers, unreadable, requests>>

\* the log line of cleanup_sessions_task for the count it was given
CleanedKind == <<"cleaned 0", "cleaned 1", "cleaned 2", "cleaned 3", "cleaned 4">>

\* cleanup_sessions_task()
CleanExpired ==
    /\ SESSIONS' = clean_expired_sessions(SESSIONS, now)
    /\ ret' = Ret(CleanedKind[clean_expired_sessions_returns(SESSIONS, now) + 1], None, IDLE)
    /\ UNCHANGED <<now, invoices, transactions, ledgers, unreadable, requests>>

\* process_message(message, session_id) called with any id
ProcessMessage ==
    \E m \in SessionMessages, session_id \in ClientIds :
       \E out \in {process_message(m, session_id, SESSIONS, World, now, "ok", "ok")} :
          /\ Cardinality(DOMAIN out.S) <= MaxSessions
          /\ Apply(out)

\* "if not session_id or get_session(session_id) is None: session_id =
\* create_session()" of app.py: the store afterwards
EnsureSession(S, session_id, t) ==
    IF get_session_found(S, session_id, t) THEN get_session(S, session_id, t)
    ELSE create_session(get_session(S, session_id, t), t)

\* the id the same lines leave in session_id
EnsuredId(S, session_id, t) ==
    IF get_session_found(S, session_id, t) THEN session_id ELSE SessionId(t)

\* POST /api/message with a non-empty text: the before_request hook
\* handle_session, then the route handle_message, within one millisecond
handle_message(message, session_id, S, W, t) ==
    process_message(message,
                    EnsuredId(EnsureSession(S, session_id, t), session_id, t),
                    EnsureSession(EnsureSession(S, session_id, t), session_id, t),
                    W, t, "ok", "ok")

AppHandleMessage ==
    \E m \in SessionMessages, session_id \in ClientIds :
       \E out \in {handle_message(m, session_id, SESSIONS, World, now)} :
          /\ Cardinality(DOMAIN out.S) <= MaxSessions
          /\ Apply(out)

NextSession ==
    \/ Tick
    \/ GetSession
    \/ CleanExpired
    \/ ProcessMessage
    \/ AppHandleMessage

SpecSession == Init /\ [][NextSession]_vars

(***************************************************************************)
(* The engine called directly: create_invoice, record_transaction and      *)
(* update_ledger with the argument shapes their callers build, every write *)
(* succeeding, failing, or leaving an unreadable file.                     *)
(***************************************************************************)
A_100 == <<"₹","1","0","0">>
A_10000 == <<"₹","1","0",",","0","0","0">>
A_commas == <<"₹",",">>
N_design == <<"D","e","s","i","g","n"," ","w","o","r","k">>
D_feb31 == <<"2","0","2","5","-","0","2","-","3","1">>

\* the arguments of a create_invoice call: items, place_of_supply,
\* additional_details
EngineInvoiceCalls ==
    { <<<<FlowItem(N_design, A_10000)>>, DELHI, "seller_state" :> DELHI>>,
      <<<<FlowItem(N_design, M_zero)>>, DELHI, EmptyDict>>,
      <<<<FlowItem(N_design, A_commas)>>, DELHI, EmptyDict>>,
      <<<<FlowItem(N_design, A_100)>>, <<>>, EmptyDict>>,
      <<<<FlowItem(N_design, A_100)>>, None, EmptyDict>>,
      <<<<FlowItem(N_design, A_100)>>, Lower(DELHI), "seller_state" :> DELHI>>,
      <<<<[name |-> N_design, amount |-> A_100, gst_rate |-> 0]>>, DELHI, EmptyDict>>,
      <<<<[name |-> N_design, amount |-> A_100, discount |-> 10, quantity |-> 2]>>,
        DELHI, "seller_state" :> DELHI>>,
      <<<<FlowItem(N_design, A_100), FlowItem(M_rent, M_500)>>, DELHI,
        "seller_state" :> DELHI>>,
      <<<<>>, None, "amount" :> M_500>> }

\* the arguments of a record_transaction call: name, amount, date
EngineTransactionCalls ==
    { <<M_acme, M_500, None>>, <<None, M_500, None>>, <<<<>>, M_500, None>>,
      <<OFFICE_MART, M_500, None>>,
      <<M_acme, A_commas, None>>, <<M_acme, M_500, D_feb31>> }

\* the files after an engine call; ret carries the kind of the return value
ApplyEngine(W, kind) ==
    /\ invoices' = W.inv
    /\ transactions' = W.txn
    /\ ledgers' = W.led
    /\ unreadable' = W.unr
    /\ ret' = Ret(kind, None, IDLE)
    /\ UNCHANGED <<SESSIONS, now, requests>>

CallCreateInvoice ==
    /\ Len(invoices) < MaxRecords
    /\ EntryCount(ledgers) < MaxEntries
    /\ \E call \in EngineInvoiceCalls, w1 \in WriteOutcomes, w2 \in WriteOutcomes :
          \E res \in {create_invoice(World, M_acme, call[1], None, None, None, 18,
                                     call[2], FALSE, call[3], now, w1, w2)} :
             ApplyEngine(res.W, IF res.ok THEN "invoice" ELSE "none")

CallRecordTransaction ==
    /\ Len(transactions) < MaxRecords
    /\ EntryCount(ledgers) < MaxEntries
    /\ \E transaction_type \in {"expense", "income"}, call \in EngineTransactionCalls,
          w1 \in WriteOutcomes, w2 \in WriteOutcomes :
          \E res \in {record_transaction(World, transaction_type, call[1], call[2],
                                         M_supplies, call[3], None, now, w1, w2)} :
             ApplyEngine(res.W, IF res.ok THEN "true" ELSE "false")

CallUpdateLedger ==
    /\ EntryCount(ledgers) < MaxEntries
    /\ \E entry_type \in {"invoice", "payment", "adjustment"}, w \in WriteOutcomes :
          ApplyEngine(update_ledger(World, M_acme, entry_type, 100 * Scale, M_supplies,
                                    NowText(now), w),
                      IF w = "ok" THEN "true" ELSE "false")

NextEngine ==
    \/ CallCreateInvoice
    \/ CallRecordTransaction
    \/ CallUpdateLedger

SpecEngine == Init /\ [][NextEngine]_vars


(***************************************************************************)
(* Vocabulary of the properties.                                           *)
(***************************************************************************)
RECURSIVE EntrySum(_, _)
EntrySum(entries, entry_type) ==
    IF entries = <<>> THEN 0
    ELSE (IF entries[1].type = entry_type THEN entries[1].amount ELSE 0)
         + EntrySum(Tail(entries), entry_type)

\* the session of the client is at the confirm step of a flow
AtConfirm(flow) ==
    /\ get_session_found(SESSIONS, ret.session_id, now)
    /\ SESSIONS[ret.session_id].state = flow
    /\ Get(SESSIONS[ret.session_id].data, "current_step", "") = "confirm"

AtAnyConfirm ==
    AtConfirm(INVOICE_CREATION) \/ AtConfirm(EXPENSE_RECORDING) \/ AtConfirm(PAYMENT_RECORDING)

\* what 'confirm' does in the current state, for each outcome of the writes
ConfirmOutcome(w1, w2) ==
    process_message(T_confirm, ret.session_id, SESSIONS, World, now, w1, w2)

RecordsAdded(out) ==
    Len(out.W.inv) + Len(out.W.txn) - (Len(invoices) + Len(transactions))

EntriesAdded(out) == EntryCount(out.W.led) - EntryCount(ledgers)

\* the engine accepts what the session has stored: every amount converts to a
\* number and the date is a date of the calendar
EngineAccepts ==
    LET data == SESSIONS[ret.session_id].data
    IN  IF SESSIONS[ret.session_id].state = INVOICE_CREATION
        THEN \A i \in DOMAIN data["items"] : AmountToFloat(data["items"][i]["amount"]).ok
        ELSE AmountToFloat(data["amount"]).ok /\ TransactionDate(data["date"], now) # None

\* the confirm posts to a ledger: always for an invoice, for a transaction
\* only when a non-empty party name was stored
PartyNamed ==
    LET data == SESSIONS[ret.session_id].data
    IN  IF SESSIONS[ret.session_id].state = INVOICE_CREATION THEN TRUE
        ELSE IF SESSIONS[ret.session_id].state = EXPENSE_RECORDING
        THEN Truthy(Get(data, "vendor", None))
        ELSE Truthy(Get(data, "from_party", None))

(***************************************************************************)
(* C1.  Amounts are exact decimals here; the code adds binary floats, so   *)
(* the equality is the one of the arithmetic before rounding.              *)
(***************************************************************************)
\* C1: for every party, whatever sequence of create_invoice,
\* record_transaction and update_ledger calls ran and whichever of their
\* writes failed, the stored balance is the sum of the party's 'invoice'
\* entries minus the sum of its 'payment' entries.
C1_BalanceIsEntrySum ==
    \A name \in DOMAIN load_json_data(World, LEDGERS_FILE) :
       LET ledger == load_json_data(World, LEDGERS_FILE)[name]
       IN  ledger.balance
             = EntrySum(ledger.entries, "invoice") - EntrySum(ledger.entries, "payment")

\* a party with an invoice entry and a payment entry, after a write of the
\* invoices file failed half-way
C1_Witness ==
    /\ INVOICES_FILE \in unreadable
    /\ \E name \in DOMAIN ledgers :
          /\ Len(ledgers[name].entries) = 2
          /\ ledgers[name].entries[1].type = "invoice"
          /\ ledgers[name].entries[2].type = "payment"
          /\ ledgers[name].balance # 0

(***************************************************************************)
(* C2                                                                      *)
(***************************************************************************)
\* C2: whatever state and step the client's session is in, each of cancel,
\* exit, quit, stop and end (in any letter case) is answered by the global
\* acknowledgement, leaves the session Idle with an empty field map, leaves
\* the three files as they were, and sending any of them again changes nothing.
C2_CancelResets ==
    \A m \in CancelMessages(TRUE) :
       InStore(SESSIONS, ret.session_id) =>
          \A out \in {process_message(m, ret.session_id, SESSIONS, World, now, "ok", "ok")} :
             /\ out.ret = Ret("cancelled", ret.session_id, IDLE)
             /\ out.S[ret.session_id].state = IDLE
             /\ out.S[ret.session_id].data = EmptyDict
             /\ out.W = World
             /\ \A m2 \in CancelMessages(TRUE) :
                   \A again \in {process_message(m2, ret.session_id, out.S, out.W, now,
                                                 "ok", "ok")} :
                      /\ again.ret = out.ret
                      /\ again.S = out.S
                      /\ again.W = out.W

\* a cancel token has just been answered for a session that exists
C2_Witness ==
    /\ ret.kind = "cancelled"
    /\ InStore(SESSIONS, ret.session_id)
    /\ SESSIONS[ret.session_id].state = IDLE
    /\ SESSIONS[ret.session_id].data = EmptyDict


C4_ScenarioAtConfirm ==
    /\ AtConfirm(INVOICE_CREATION)
    /\ SESSIONS[ret.session_id].data
         = ("recipient" :> M_acme) @@ ("place_of_supply" :> DELHI)
           @@ ("items" :> <<FlowItem(N_design, A_10000)>>)
           @@ ("current_step" :> "confirm") @@ ("flow_path" :> INVOICE_FLOW_PATH)

\* C4 as stated: 'confirm' then creates exactly one invoice with base 10000,
\* GST 1800 charged as IGST 1800 (CGST = SGST = 0) and total 11800.
C4_ScenarioIsInterstate ==
    C4_ScenarioAtConfirm =>
       \A out \in {ConfirmOutcome("ok", "ok")} :
          /\ Len(out.W.inv) = Len(invoices) + 1
          /\ LET invoice == out.W.inv[Len(out.W.inv)]
             IN  /\ invoice.base_amount = 10000 * Scale
                 /\ invoice.gst_amount = 1800 * Scale
                 /\ invoice.igst_amount = 1800 * Scale
                 /\ invoice.cgst_amount = 0
                 /\ invoice.sgst_amount = 0
                 /\ invoice.total_amount = 11800 * Scale

\* C4, amended: 'confirm' then creates exactly one invoice with base 10000,
\* GST 1800 and total 11800, charged as CGST 900 and SGST 900 with IGST 0: the
\* confirm step passes seller_state "Delhi" when no sender GST number is
\* stored, so a supply to Delhi is intrastate.
C4_ScenarioIsIntrastate ==
    C4_ScenarioAtConfirm =>
       \A out \in {ConfirmOutcome("ok", "ok")} :
          /\ Len(out.W.inv) = Len(invoices) + 1
          /\ LET invoice == out.W.inv[Len(out.W.inv)]
             IN  /\ invoice.base_amount = 10000 * Scale
                 /\ invoice.gst_amount = 1800 * Scale
                 /\ invoice.igst_amount = 0
                 /\ invoice.cgst_amount = 900 * Scale
                 /\ invoice.sgst_amount = 900 * Scale
                 /\ invoice.total_amount = 11800 * Scale

\* the scenario has been confirmed and its invoice stored
C4_Witness ==
    /\ ret.kind = "created"
    /\ Len(invoices) = 1
    /\ invoices[1].recipient = M_acme
    /\ invoices[1].recipient_gst = None
    /\ invoices[1].sender_gst = None
    /\ invoices[1].place_of_supply = DELHI
    /\ Len(invoices[1].items) = 1
    /\ invoices[1].items[1].name = N_design
    /\ invoices[1].base_amount = 10000 * Scale
    /\ invoices[1].cgst_amount = 900 * Scale

(***************************************************************************)
(* C5, C6                                                                  *)
(***************************************************************************)
\* the items of the stored invoices
InvoiceItems ==
    UNION {{invoices[i].items[j] : j \in DOMAIN invoices[i].items} : i \in DOMAIN invoices}

\* C5 as stated: every item of every invoice carries either IGST > 0 or both
\* CGST > 0 and SGST > 0, never both and never neither, with CGST = SGST.
C5_ExactlyOneTaxKind ==
    \A item \in InvoiceItems :
       /\ (item.igst_amount > 0) # (item.cgst_amount > 0 /\ item.sgst_amount > 0)
       /\ (item.cgst_amount > 0 /\ item.sgst_amount > 0)
             => item.cgst_amount = item.sgst_amount

\* C5, amended: no item carries both IGST and CGST/SGST, and CGST = SGST; an
\* item whose GST amount is positive carries exactly one of IGST > 0 or
\* (CGST > 0 and SGST > 0); an item whose GST amount is 0 (amount 0, or
\* gst_rate 0) carries neither: all three are 0.
C5_OneTaxKindWhenTaxed ==
    \A item \in InvoiceItems :
       /\ ~(item.igst_amount > 0 /\ (item.cgst_amount > 0 \/ item.sgst_amount > 0))
       /\ item.cgst_amount = item.sgst_amount
       /\ item.gst_amount > 0
             => (item.igst_amount > 0) # (item.cgst_amount > 0 /\ item.sgst_amount > 0)
       /\ item.gst_amount = 0
             => item.igst_amount = 0 /\ item.cgst_amount = 0 /\ item.sgst_amount = 0

\* an invoice for an item of amount 0 has been stored
C5_Witness ==
    \E item \in InvoiceItems :
       /\ item.base_amount = 0
       /\ item.gst_rate = 18
       /\ item.gst_amount = 0
       /\ item.igst_amount = 0 /\ item.cgst_amount = 0 /\ item.sgst_amount = 0

\* C6: every invoice's base_amount is the sum of its items' taxable_value,
\* its gst_amount the sum of their gst_amount, CGST + SGST + IGST make up
\* gst_amount, and total_amount is base_amount + gst_amount.
C6_TotalsAreItemSums ==
    \A i \in DOMAIN invoices :
       /\ invoices[i].base_amount = SumField(invoices[i].items, "taxable_value")
       /\ invoices[i].gst_amount = SumField(invoices[i].items, "gst_amount")
       /\ invoices[i].cgst_amount + invoices[i].sgst_amount + invoices[i].igst_amount
            = invoices[i].gst_amount
       /\ invoices[i].total_amount = invoices[i].base_amount + invoices[i].gst_amount

\* an invoice of two taxed items has been stored
C6_Witness ==
    \E i \in DOMAIN invoices :
       /\ Len(invoices[i].items) = 2
       /\ invoices[i].items[1].gst_amount > 0
       /\ invoices[i].items[2].gst_amount > 0
       /\ invoices[i].cgst_amount > 0


(***************************************************************************)
(* C7                                                                      *)
(***************************************************************************)
\* the fields a flow must have stored before its engine call
MandatoryFields(state) ==
    IF state = INVOICE_CREATION THEN {"recipient", "place_of_supply", "items"}
    ELSE IF state = EXPENSE_RECORDING THEN {"amount", "date", "category"}
    ELSE {"from_party", "amount", "date"}

\* C7: in every session whose state is a flow and whose current_step is
\* 'confirm', every mandatory field of the flow is stored (invoice:
\* recipient, place_of_supply and a non-empty items list; expense: amount,
\* date, category; payment: from_party, amount, date), also after a message
\* that raised put the session back to Idle with its fields left in place.
C7_ConfirmHasMandatoryFields ==
    \A session_id \in DOMAIN SESSIONS :
       LET session == SESSIONS[session_id]
       IN  (/\ session.state \in {INVOICE_CREATION, EXPENSE_RECORDING, PAYMENT_RECORDING}
            /\ Get(session.data, "current_step", "") = "confirm")
           => /\ MandatoryFields(session.state) \subseteq DOMAIN session.data
              /\ session.state = INVOICE_CREATION => session.data["items"] # <<>>

\* an expense flow at its confirm step, started on a session that still held
\* the fields of an invoice flow a raising message had interrupted
C7_Witness ==
    \E session_id \in DOMAIN SESSIONS :
       /\ SESSIONS[session_id].state = EXPENSE_RECORDING
       /\ Get(SESSIONS[session_id].data, "current_step", "") = "confirm"
       /\ {"amount", "date", "category", "recipient"} \subseteq DOMAIN SESSIONS[session_id].data

(***************************************************************************)
(* C8, C9                                                                  *)
(***************************************************************************)
\* C8: for a session idle for more than SESSION_TIMEOUT, get_session returns
\* no session and removes it, and process_message called afterwards with the
\* same id, whatever the message, runs on a session created by that call and
\* returns that session's id, not the expired one.
C8_ExpiredSessionRestarts ==
    \A session_id \in DOMAIN SESSIONS :
       Expired(SESSIONS[session_id], now) =>
          /\ ~get_session_found(SESSIONS, session_id, now)
          /\ ~InStore(get_session(SESSIONS, session_id, now), session_id)
          /\ \A m \in SessionMessages :
                \A out \in {process_message(m, session_id,
                                            get_session(SESSIONS, session_id, now),
                                            World, now, "ok", "ok")} :
                   /\ out.ret.session_id # session_id
                   /\ InStore(out.S, out.ret.session_id)
                   /\ out.S[out.ret.session_id].created_at = now

\* C9: for every message, the cancel tokens included, process_message called
\* with no session id or with one that is not in the store creates a session,
\* and the id it returns names a session of the store.
C9_UnknownIdCreatesSession ==
    \A session_id \in ClientIds, m \in SessionMessages :
       ~InStore(SESSIONS, session_id) =>
          \A out \in {process_message(m, session_id, SESSIONS, World, now, "ok", "ok")} :
             /\ InStore(out.S, out.ret.session_id)
             /\ DOMAIN out.S # DOMAIN SESSIONS

(***************************************************************************)
(* C10                                                                     *)
(***************************************************************************)
\* C10: when 'confirm' is sent at the confirm step of a flow and the engine
\* fails, the stored session is reset to Idle with its fields cleared.
C10_FailedConfirmResets ==
    AtAnyConfirm =>
       \A w1 \in WriteOutcomes, w2 \in WriteOutcomes :
          \A out \in {ConfirmOutcome(w1, w2)} :
             out.ret.kind = "failed"
                => /\ out.S[ret.session_id].state = IDLE
                   /\ out.S[ret.session_id].data = EmptyDict

(***************************************************************************)
(* C11                                                                     *)
(***************************************************************************)
M_bare500 == <<"5","0","0">>
M_gstin14 == <<"2","9","A","B","C","D","E","1","2","3","4","F","1","Z">>
M_day32 == <<"3","2","/","0","1","/","2","0","2","5">>

\* the session the client's id names is in a flow, at a step it has stored
InFlowAtStep ==
    /\ get_session_found(SESSIONS, ret.session_id, now)
    /\ SESSIONS[ret.session_id].state \in {INVOICE_CREATION, EXPENSE_RECORDING, PAYMENT_RECORDING}
    /\ "current_step" \in DOMAIN SESSIONS[ret.session_id].data

\* inputs the validation of a step refuses: no GST number (and not 'skip') at
\* a GST step, no rupee amount at an amount step or at the items step, no
\* date at a date step
InvalidInputs(state, current_step) ==
    IF state = INVOICE_CREATION /\ current_step \in {"recipient_gst", "sender_gst"}
    THEN {M_acme, M_hello, Lower(M_gstin), M_gstin14, M_blank, <<" ">> \o T_skip}
    ELSE IF state = INVOICE_CREATION /\ current_step = "items"
    THEN {M_hello, M_bare500, M_blank, M_today}
    ELSE IF state \in {EXPENSE_RECORDING, PAYMENT_RECORDING} /\ current_step = "amount"
    THEN {M_hello, M_bare500, M_blank, M_acme}
    ELSE IF state \in {EXPENSE_RECORDING, PAYMENT_RECORDING} /\ current_step = "date"
    THEN {M_hello, M_day32, M_blank, M_500}
    ELSE {}

\* C11: when the validation of a step fails (no GST number and not 'skip' at
\* a GST step, no amount at an amount step, no date at a date step, no item
\* amount at the items step), the message leaves the session's state, its
\* current_step and every stored field as they were, creates no record, and
\* is answered by the re-prompt of the same flow.
C11_RejectedInputChangesNothing ==
    InFlowAtStep =>
       \A m \in InvalidInputs(SESSIONS[ret.session_id].state,
                              SESSIONS[ret.session_id].data["current_step"]) :
          \A out \in {process_message(m, ret.session_id, SESSIONS, World, now, "ok", "ok")} :
             /\ out.ret = Ret("reprompt", ret.session_id, SESSIONS[ret.session_id].state)
             /\ out.S[ret.session_id].state = SESSIONS[ret.session_id].state
             /\ out.S[ret.session_id].data = SESSIONS[ret.session_id].data
             /\ DOMAIN out.S = DOMAIN SESSIONS
             /\ out.W = World

\* a date step has just refused its input: the expense flow is still at the
\* date step, with the amount it had stored
C11_Witness ==
    /\ ret.kind = "reprompt"
    /\ InFlowAtStep
    /\ SESSIONS[ret.session_id].state = EXPENSE_RECORDING
    /\ SESSIONS[ret.session_id].data["current_step"] = "date"
    /\ SESSIONS[ret.session_id].data["amount"] = M_500
    /\ transactions = <<>>

(***************************************************************************)
(* C12, C13                                                                *)
(***************************************************************************)
\* the first step of a flow
FirstStep(state) ==
    IF state = INVOICE_CREATION THEN "recipient"
    ELSE IF state = EXPENSE_RECORDING THEN "amount"
    ELSE "from_party"

\* C12: at the confirm step of each flow, 'edit' (in any letter case) sets
\* current_step to the first step of the flow (recipient, amount, from_party),
\* keeps the session in the state of the flow, leaves every other stored
\* field with the value it had, and leaves the three files as they were.
C12_EditRewindsKeepingFields ==
    AtAnyConfirm =>
       \A m \in {T_edit, <<"E","D","I","T">>, <<"E","d","i","t">>} :
          \A out \in {process_message(m, ret.session_id, SESSIONS, World, now, "ok", "ok")} :
             LET before == SESSIONS[ret.session_id]
                 after  == out.S[ret.session_id]
             IN  /\ out.ret = Ret("edit", ret.session_id, before.state)
                 /\ after.state = before.state
                 /\ DOMAIN after.data = DOMAIN before.data
                 /\ after.data["current_step"] = FirstStep(before.state)
                 /\ \A k \in DOMAIN before.data \ {"current_step"} :
                       after.data[k] = before.data[k]
                 /\ DOMAIN out.S = DOMAIN SESSIONS
                 /\ out.W = World

\* 'edit' has just been answered at the confirm step of a payment flow: the
\* flow is back at from_party with the party, amount and date it had stored
C12_Witness ==
    /\ ret.kind = "edit"
    /\ InFlowAtStep
    /\ SESSIONS[ret.session_id].state = PAYMENT_RECORDING
    /\ SESSIONS[ret.session_id].data["current_step"] = "from_party"
    /\ {"from_party", "amount", "date"} \subseteq DOMAIN SESSIONS[ret.session_id].data
    /\ SESSIONS[ret.session_id].data["from_party"] = M_acme
    /\ transactions = <<>>


\* messages that are neither 'confirm', 'edit' nor a cancel token; the code
\* compares message.lower() without stripping it
NotConfirmEditCancel ==
    {M_hello, M_blank, M_today, M_500, T_skip, T_end \o <<"s">>,
     <<" ">> \o T_confirm, T_confirm \o <<" ">>, T_confirm \o <<"e","d">>,
     <<"y","e","s">>, <<" ">> \o T_edit}

\* every message the flows are offered in some step
AnyStepMessages ==
    NotConfirmEditCancel \cup {T_confirm, T_edit, <<"C","O","N","F","I","R","M">>}
       \cup UNION {InvoiceMenu(s, TRUE) : s \in Range(INVOICE_FLOW_PATH)}
       \cup UNION {ExpenseMenu(s, TRUE) : s \in {"amount", "date", "category", "vendor", "notes"}}
       \cup UNION {PaymentMenu(s, TRUE) : s \in {"from_party", "amount", "date", "notes"}}

\* C13: at the confirm step of each flow, a message that is neither
\* 'confirm', 'edit' nor a cancel token leaves the session's state,
\* current_step and fields as they were and adds no invoice, transaction or
\* ledger entry (first conjunct); and in any step of a flow the files change
\* only when the step is confirm and the message is 'confirm' (second).
C13_OnlyConfirmInvokesEngine ==
    /\ AtAnyConfirm =>
          \A m \in NotConfirmEditCancel :
             \A out \in {process_message(m, ret.session_id, SESSIONS, World, now, "ok", "ok")} :
                /\ out.ret = Ret("reprompt", ret.session_id, SESSIONS[ret.session_id].state)
                /\ out.S[ret.session_id].state = SESSIONS[ret.session_id].state
                /\ out.S[ret.session_id].data = SESSIONS[ret.session_id].data
                /\ DOMAIN out.S = DOMAIN SESSIONS
                /\ out.W = World
    /\ InFlowAtStep =>
          \A m \in AnyStepMessages : \A w1, w2 \in Writes(m) :
             \A out \in {process_message(m, ret.session_id, SESSIONS, World, now, w1, w2)} :
                out.W # World =>
                   /\ SESSIONS[ret.session_id].data["current_step"] = "confirm"
                   /\ Lower(m) = T_confirm

\* a message other than 'confirm' and 'edit' has just been answered at the
\* confirm step of an invoice flow: the step, the items and the files are as
\* they were
C13_Witness ==
    /\ ret.kind = "reprompt"
    /\ AtConfirm(INVOICE_CREATION)
    /\ "items" \in DOMAIN SESSIONS[ret.session_id].data
    /\ invoices = <<>>
    /\ ledgers = EmptyDict

(***************************************************************************)
(* The session store written to directly: update_session is a public       *)
(* function of session_manager, and a caller can leave in a session a      *)
(* current_step that the flow of its state has no branch for.              *)
(***************************************************************************)
StorePatches ==
    {EmptyDict,
     "current_step" :> "bogus_step",
     "current_step" :> "vendor",
     ("notes" :> M_rent) @@ ("current_step" :> "recipient")}

StoreStates == {"", EXPENSE_RECORDING}

\* update_session(session_id, state, data) called from outside the flows;
\* the caller gets True ("updated") or False ("not_updated")
UpdateSession ==
    /\ Bounded
    /\ \E session_id \in DOMAIN SESSIONS \cup {BOGUS}, state \in StoreStates, data \in StorePatches :
          /\ SESSIONS' = update_session(SESSIONS, session_id, state, data, now)
          /\ ret' = [ret EXCEPT !.kind = IF InStore(SESSIONS, session_id) THEN "updated"
                                         ELSE "not_updated"]
          /\ UNCHANGED <<now, invoices, transactions, ledgers, unreadable, requests>>

NextStore ==
    \/ Cancel(FALSE)
    \/ InitialCommand
    \/ InvoiceStep(FALSE)
    \/ ExpenseStep(FALSE)
    \/ PaymentStep(FALSE)
    \/ UpdateSession

SpecStore == Init /\ [][NextStore]_vars

(***************************************************************************)
(* C14                                                                     *)
(***************************************************************************)
\* the step names the handler of a flow has a branch for
StepNames(state) ==
    IF state = INVOICE_CREATION THEN Range(INVOICE_FLOW_PATH)
    ELSE IF state = EXPENSE_RECORDING
    THEN {"amount", "date", "category", "vendor", "notes", "confirm"}
    ELSE {"from_party", "amount", "date", "notes", "confirm"}

AtUnknownStep ==
    /\ InFlowAtStep
    /\ SESSIONS[ret.session_id].data["current_step"]
          \notin StepNames(SESSIONS[ret.session_id].state)

\* C14: when a session is in the state of a flow and its current_step is not
\* a step name of that flow, every message that is not a cancel token resets
\* the session to Idle with no stored field, adds no invoice, transaction or
\* ledger entry whatever the writes would do, and is answered in the idle
\* state.
C14_UnknownStepResets ==
    AtUnknownStep =>
       \A m \in AnyStepMessages : \A w1, w2 \in Writes(m) :
          \A out \in {process_message(m, ret.session_id, SESSIONS, World, now, w1, w2)} :
             /\ out.ret = Ret("unknown_step", ret.session_id, IDLE)
             /\ out.S[ret.session_id].state = IDLE
             /\ out.S[ret.session_id].data = EmptyDict
             /\ DOMAIN out.S = DOMAIN SESSIONS
             /\ out.W = World

\* a message has just been answered for a session whose step was unknown:
\* the session is idle, stores nothing, and no file has a record
C14_Witness ==
    /\ ret.kind = "unknown_step"
    /\ InStore(SESSIONS, ret.session_id)
    /\ SESSIONS[ret.session_id].state = IDLE
    /\ SESSIONS[ret.session_id].data = EmptyDict
    /\ invoices = <<>> /\ transactions = <<>> /\ ledgers = EmptyDict

(***************************************************************************)
(* C15, C16                                                                *)
(***************************************************************************)
PathIndex(path, s) == CHOOSE i \in DOMAIN path : path[i] = s

\* the session is in the flow before and after a call and its step changed
StepMoved(session_id, flow) ==
    /\ InStore(SESSIONS, session_id) /\ InStore(SESSIONS', session_id)
    /\ SESSIONS[session_id].state = flow /\ SESSIONS'[session_id].state = flow
    /\ "current_step" \in DOMAIN SESSIONS[session_id].data
    /\ "current_step" \in DOMAIN SESSIONS'[session_id].data
    /\ SESSIONS'[session_id].data["current_step"] # SESSIONS[session_id].data["current_step"]

\* the step has moved to the entry of path that follows the one it was at
AdvancedAlong(session_id, path) ==
    LET old == SESSIONS[session_id].data["current_step"]
        new == SESSIONS'[session_id].data["current_step"]
    IN  /\ old \in Range(path)
        /\ PathIndex(path, old) < Len(path)
        /\ new = path[PathIndex(path, old) + 1]

\* 'edit' has moved the step from confirm to the first step of the flow
Rewound(session_id, flow) ==
    /\ SESSIONS[session_id].data["current_step"] = "confirm"
    /\ SESSIONS'[session_id].data["current_step"] = FirstStep(flow)
    /\ ret'.kind = "edit"

\* the step of the invoice flow can only have moved to confirm from items,
\* with at least one parsed item stored by the same call
ConfirmFromItems(session_id) ==
    SESSIONS'[session_id].data["current_step"] = "confirm" =>
       /\ SESSIONS[session_id].data["current_step"] = "items"
       /\ "items" \in DOMAIN SESSIONS'[session_id].data
       /\ Len(SESSIONS'[session_id].data["items"]) >= 1
       /\ ret'.kind = "confirmation"

\* C15 as claimed: in the invoice flow every change of current_step is a move
\* to the next entry of the stored flow_path, confirm being reached only from
\* items with at least one item parsed.
C15_OnlyForward ==
    [][\A session_id \in DOMAIN SESSIONS :
          StepMoved(session_id, INVOICE_CREATION) =>
             /\ AdvancedAlong(session_id, SESSIONS[session_id].data["flow_path"])
             /\ ConfirmFromItems(session_id)]_vars

\* C15: in the invoice flow every change of current_step is either a move to
\* exactly the next entry of the stored flow_path (recipient, recipient_gst,
\* sender_gst, place_of_supply, items, confirm), confirm being reached only
\* from items with at least one item parsed, or the return from confirm to
\* recipient that 'edit' makes.
C15_ForwardOrEdit ==
    [][\A session_id \in DOMAIN SESSIONS :
          StepMoved(session_id, INVOICE_CREATION) =>
             \/ /\ AdvancedAlong(session_id, SESSIONS[session_id].data["flow_path"])
                /\ SESSIONS'[session_id].data["flow_path"] = SESSIONS[session_id].data["flow_path"]
                /\ SESSIONS[session_id].data["flow_path"] = INVOICE_FLOW_PATH
                /\ ConfirmFromItems(session_id)
             \/ Rewound(session_id, INVOICE_CREATION)]_vars

\* an invoice flow that went through confirm and 'edit' has advanced again:
\* it is at recipient_gst and still stores the items parsed before
C15_Witness ==
    /\ ret.kind = "prompt"
    /\ InFlowAtStep
    /\ SESSIONS[ret.session_id].state = INVOICE_CREATION
    /\ SESSIONS[ret.session_id].data["current_step"] = "recipient_gst"
    /\ "items" \in DOMAIN SESSIONS[ret.session_id].data
    /\ Len(SESSIONS[ret.session_id].data["items"]) >= 1


EXPENSE_PATH == <<"amount", "date", "category", "vendor", "notes", "confirm">>
PAYMENT_PATH == <<"from_party", "amount", "date", "notes", "confirm">>

\* the path of the expense and of the payment flow
PathOf(flow) == IF flow = EXPENSE_RECORDING THEN EXPENSE_PATH ELSE PAYMENT_PATH

\* C16 as claimed: in the expense and payment flows every change of
\* current_step is a move of exactly one step along the path of the flow.
C16_OnlyForward ==
    [][\A session_id \in DOMAIN SESSIONS : \A flow \in {EXPENSE_RECORDING, PAYMENT_RECORDING} :
          StepMoved(session_id, flow) => AdvancedAlong(session_id, PathOf(flow))]_vars

\* C16: in the expense flow (amount, date, category, vendor, notes, confirm)
\* and in the payment flow (from_party, amount, date, notes, confirm) the
\* step is always one of the path, and every change of current_step is
\* either a move of exactly one step along the path, no step being skipped,
\* or the return from confirm to the first step that 'edit' makes.
C16_ForwardOrEdit ==
    [][\A session_id \in DOMAIN SESSIONS : \A flow \in {EXPENSE_RECORDING, PAYMENT_RECORDING} :
          /\ StepMoved(session_id, flow) =>
                \/ AdvancedAlong(session_id, PathOf(flow))
                \/ Rewound(session_id, flow)
          /\ (/\ InStore(SESSIONS', session_id)
              /\ SESSIONS'[session_id].state = flow) =>
                /\ "current_step" \in DOMAIN SESSIONS'[session_id].data
                /\ SESSIONS'[session_id].data["current_step"] \in Range(PathOf(flow))]_vars

\* a payment flow that went through confirm and 'edit' has advanced again:
\* it is at amount and still stores the date of the first round
C16_Witness ==
    /\ ret.kind = "prompt"
    /\ InFlowAtStep
    /\ SESSIONS[ret.session_id].state = PAYMENT_RECORDING
    /\ SESSIONS[ret.session_id].data["current_step"] = "amount"
    /\ "date" \in DOMAIN SESSIONS[ret.session_id].data

(***************************************************************************)
(* C17                                                                     *)
(***************************************************************************)
\* the 15-character structural pattern: D a digit, U an upper-case letter,
\* A either of them, Z the letter Z
GstShape == <<"D","D","U","U","U","U","U","D","D","D","D","U","A","Z","A">>

FitsGstShape(s) ==
    /\ Len(s) = Len(GstShape)
    /\ \A i \in DOMAIN GstShape :
          IF GstShape[i] = "D" THEN IsDigit(s[i])
          ELSE IF GstShape[i] = "U" THEN IsUpper(s[i])
          ELSE IF GstShape[i] = "Z" THEN s[i] = "Z"
          ELSE IsDigit(s[i]) \/ IsUpper(s[i])

\* what the GST steps are offered
GstInputs ==
    {M_gstin, Lower(M_gstin), M_gstin14, M_gstin \o <<"5">>, <<" ">> \o M_gstin \o <<" ">>,
     T_skip, <<"S","k","i","p">>, <<" ">> \o T_skip, M_acme, M_hello, M_blank}

\* C17: every value a session stores under recipient_gst or sender_gst fits
\* the 15-character pattern (first conjunct); at a GST step the step advances
\* only when the stripped message fits the pattern, which is then stored
\* under the field of the step, or when the message is 'skip', which leaves
\* the field exactly as it was (second conjunct).
C17_GstStoredOnlyWhenMatching ==
    /\ \A session_id \in DOMAIN SESSIONS :
          \A k \in {"recipient_gst", "sender_gst"} \cap DOMAIN SESSIONS[session_id].data :
             FitsGstShape(SESSIONS[session_id].data[k])
    /\ (/\ InFlowAtStep
        /\ SESSIONS[ret.session_id].state = INVOICE_CREATION
        /\ SESSIONS[ret.session_id].data["current_step"] \in {"recipient_gst", "sender_gst"}) =>
          \A m \in GstInputs :
             \A out \in {process_message(m, ret.session_id, SESSIONS, World, now, "ok", "ok")} :
                LET before == SESSIONS[ret.session_id].data
                    after  == out.S[ret.session_id].data
                    field  == before["current_step"]
                    others == DOMAIN before \ {"current_step", field}
                IN  /\ \A k \in others : k \in DOMAIN after /\ after[k] = before[k]
                    /\ DOMAIN after \subseteq DOMAIN before \cup {field}
                    /\ IF Lower(m) = T_skip
                       THEN /\ after["current_step"] # field
                            /\ (field \in DOMAIN after) = (field \in DOMAIN before)
                            /\ field \in DOMAIN before => after[field] = before[field]
                       ELSE IF FitsGstShape(Strip(m))
                       THEN /\ after["current_step"] # field
                            /\ field \in DOMAIN after
                            /\ after[field] = Strip(m)
                       ELSE after = before

\* a GST number has been stored for the recipient and the sender's step was
\* answered 'skip': the flow is at place_of_supply with no sender_gst
C17_Witness ==
    /\ ret.kind = "prompt"
    /\ InFlowAtStep
    /\ SESSIONS[ret.session_id].state = INVOICE_CREATION
    /\ SESSIONS[ret.session_id].data["current_step"] = "place_of_supply"
    /\ "recipient_gst" \in DOMAIN SESSIONS[ret.session_id].data
    /\ SESSIONS[ret.session_id].data["recipient_gst"] = M_gstin
    /\ "sender_gst" \notin DOMAIN SESSIONS[ret.session_id].data

(***************************************************************************)
(* C18                                                                     *)
(***************************************************************************)
M_5apr_dmy == <<"0","5","/","0","4","/","2","0","2","5">>
M_5apr_iso == <<"2","0","2","5","-","0","4","-","0","5">>
M_year202 == <<"1","/","2","/","2","0","2">>

\* YYYY-MM-DD of a date of the calendar
CanonicalDate(d) ==
    /\ Len(d) = 10
    /\ d[5] = "-" /\ d[8] = "-"
    /\ \A i \in {1, 2, 3, 4, 6, 7, 9, 10} : IsDigit(d[i])
    /\ DigitsVal(SubSeq(d, 6, 7)) \in 1..12
    /\ DigitsVal(SubSeq(d, 9, 10)) \in
          1..DaysInMonth(DigitsVal(SubSeq(d, 1, 4)), DigitsVal(SubSeq(d, 6, 7)))

\* the date each input of a date step denotes, None when it denotes none
DateTyped ==
    (M_today :> TodayText) @@ (M_5apr_dmy :> M_5apr_iso) @@ (M_5apr_iso :> M_5apr_iso)
       @@ (M_feb31 :> None) @@ (M_day32 :> None) @@ (M_year202 :> None) @@ (M_hello :> None)

\* C18: every value a session stores under 'date' is a canonical YYYY-MM-DD
\* date of the calendar that record_transaction accepts (first conjunct); a
\* date step stores the day, month and year the user typed and advances, and
\* re-prompts without storing anything on an input that denotes no date
\* (second conjunct).
C18_StoredDateIsTypedCalendarDate ==
    /\ \A session_id \in DOMAIN SESSIONS :
          "date" \in DOMAIN SESSIONS[session_id].data =>
             /\ CanonicalDate(SESSIONS[session_id].data["date"])
             /\ TransactionDate(SESSIONS[session_id].data["date"], now) # None
    /\ (/\ InFlowAtStep
        /\ SESSIONS[ret.session_id].state \in {EXPENSE_RECORDING, PAYMENT_RECORDING}
        /\ SESSIONS[ret.session_id].data["current_step"] = "date") =>
          \A m \in DOMAIN DateTyped :
             \A out \in {process_message(m, ret.session_id, SESSIONS, World, now, "ok", "ok")} :
                IF DateTyped[m] = None
                THEN /\ out.ret.kind = "reprompt"
                     /\ out.S[ret.session_id].data = SESSIONS[ret.session_id].data
                ELSE /\ out.ret.kind = "prompt"
                     /\ out.S[ret.session_id].data["date"] = DateTyped[m]

(***************************************************************************)
(* C19                                                                     *)
(***************************************************************************)
\* the ids, states and patches update_session is called with
C19_Ids == DOMAIN SESSIONS \cup {None, BOGUS, SessionId(now + 1)}
C19_States == {"", IDLE, INVOICE_CREATION, EXPENSE_RECORDING}
C19_Patches == StorePatches \cup {("current_step" :> "confirm") @@ ("amount" :> M_500)}

\* C19: update_session on a session of the store leaves under every key of
\* the patch the value of the patch, leaves every other stored field, the
\* creation time and (when no state is given) the state as they were, sets
\* the state that is given, leaves every other session as it was and returns
\* True; on an id that is not in the store it returns False and the store is
\* as it was.
C19_UpdateMergesPatch ==
    \A session_id \in C19_Ids, state \in C19_States, data \in C19_Patches :
       \A S2 \in {update_session(SESSIONS, session_id, state, data, now)} :
          IF session_id \in DOMAIN SESSIONS
          THEN /\ update_session_returns(SESSIONS, session_id)
               /\ DOMAIN S2 = DOMAIN SESSIONS
               /\ \A other \in DOMAIN SESSIONS \ {session_id} : S2[other] = SESSIONS[other]
               /\ DOMAIN S2[session_id].data = DOMAIN SESSIONS[session_id].data \cup DOMAIN data
               /\ \A k \in DOMAIN data : S2[session_id].data[k] = data[k]
               /\ \A k \in DOMAIN SESSIONS[session_id].data \ DOMAIN data :
                     S2[session_id].data[k] = SESSIONS[session_id].data[k]
               /\ S2[session_id].state = (IF state = "" THEN SESSIONS[session_id].state ELSE state)
               /\ S2[session_id].created_at = SESSIONS[session_id].created_at
          ELSE /\ ~update_session_returns(SESSIONS, session_id)
               /\ S2 = SESSIONS

\* update_session has just set the state and the first fields of one of two
\* stored sessions: the other one is idle, empty and as old as it was
C19_Witness ==
    /\ ret.kind = "start"
    /\ InStore(SESSIONS, ret.session_id)
    /\ SESSIONS[ret.session_id].state = INVOICE_CREATION
    /\ SESSIONS[ret.session_id].data["current_step"] = "recipient"
    /\ \E other \in DOMAIN SESSIONS \ {ret.session_id} :
          /\ SESSIONS[other].state = IDLE
          /\ SESSIONS[other].data = EmptyDict
          /\ SESSIONS[other].last_updated < now

(***************************************************************************)
(* C20                                                                     *)
(***************************************************************************)
\* the time since the session was last read, updated or cleared
IdleTime(session_id) == now - SESSIONS[session_id].last_updated

ThirtyMinutes == 30 * 60 * 1000

\* get_session, clean_expired_sessions, update_session and clear_session_data
\* called now for a stored session
SlidingExpiryNow ==
    \A session_id \in DOMAIN SESSIONS :
       /\ IF IdleTime(session_id) <= ThirtyMinutes
          THEN /\ get_session_found(SESSIONS, session_id, now)
               /\ session_id \in DOMAIN get_session(SESSIONS, session_id, now)
               /\ get_session(SESSIONS, session_id, now)[session_id]
                     = [SESSIONS[session_id] EXCEPT !.last_updated = now]
               /\ session_id \in DOMAIN clean_expired_sessions(SESSIONS, now)
               /\ clean_expired_sessions(SESSIONS, now)[session_id] = SESSIONS[session_id]
          ELSE /\ ~get_session_found(SESSIONS, session_id, now)
               /\ session_id \notin DOMAIN get_session(SESSIONS, session_id, now)
               /\ session_id \notin DOMAIN clean_expired_sessions(SESSIONS, now)
       /\ update_session(SESSIONS, session_id, "", EmptyDict, now)[session_id].last_updated = now
       /\ clear_session_data(SESSIONS, session_id, now)[session_id].last_updated = now

\* a call removes a session only when it was idle for more than 30 minutes,
\* and a call that returns a session leaves it in the store, read now
RemovedOnlyWhenIdle ==
    /\ \A session_id \in DOMAIN SESSIONS \ DOMAIN SESSIONS' :
          IdleTime(session_id) > ThirtyMinutes
    /\ (ret'.kind = "session" /\ ret' # ret) =>
          /\ InStore(SESSIONS', ret'.session_id)
          /\ SESSIONS'[ret'.session_id].last_updated = now

\* C20: a successful get_session sets last_updated to the time of the call;
\* a session whose last read, update or clear is at most 30 minutes old is
\* found by get_session and kept by get_session and clean_expired_sessions,
\* however long ago it was created, and one idle for longer is not found and
\* is removed; no call removes a session that was idle for 30 minutes or less.
C20_SlidingExpiry == [](SlidingExpiryNow) /\ [][RemovedOnlyWhenIdle]_vars

\* a session created an hour ago has just been read and is found: it was
\* read half an hour ago too
C20_Witness ==
    /\ ret.kind = "session"
    /\ InStore(SESSIONS, ret.session_id)
    /\ now - SESSIONS[ret.session_id].created_at = 2 * ThirtyMinutes
    /\ SESSIONS[ret.session_id].last_updated = now

(***************************************************************************)
(* Requests served at the same time.  The server handles each request in   *)
(* a thread of its own and neither the session store nor the files are     *)
(* locked, so the reads and writes of two requests interleave.  A request  *)
(* is a message for the client's session in the expense flow, or a direct  *)
(* call of record_transaction as the one-shot commands make it.  Its steps *)
(* are the reads and writes of the handler in the order of the code:       *)
(* process_message and process_expense_step read the state and the step;   *)
(* a step other than 'confirm' at confirm then makes its one update; the   *)
(* confirm step reads the fields, record_transaction loads the             *)
(* transactions, saves them, update_ledger loads the ledgers, saves them,  *)
(* and the handler resets the session.                                     *)
(***************************************************************************)
\* the messages the client sends for the state its session is in
RaceMenu ==
    IF DispatchState(ret.session_id) = IDLE THEN {M_record_expense}
    ELSE IF DispatchState(ret.session_id) = EXPENSE_RECORDING
    THEN ExpenseMenu(DispatchStep(ret.session_id, "amount"), FALSE)
    ELSE {}

\* the arguments of the direct calls of record_transaction
RaceCalls ==
    {("vendor" :> name) @@ ("amount" :> M_500) @@ ("category" :> M_supplies) :
        name \in {M_acme, OFFICE_MART}}

AllFree == \A t \in Threads : requests.th[t].pc = "free"

\* no request is being handled
Quiet == \A t \in Threads : requests.th[t].pc \in {"free", "done"}

\* record_transaction as the confirm step of the expense flow calls it
\* (lines 786-794), every write succeeding
RecordExpense(W, data, t) ==
    record_transaction(W, "expense", Get(data, "vendor", None), Get(data, "amount", None),
                       Get(data, "category", None), Get(data, "date", None),
                       Get(data, "notes", None), t, "ok", "ok")

\* the request of thread t and what follows its call of record_transaction
Req(t) == requests.th[t]

AfterRecord(t) == IF Req(t).call = "message" THEN "reset" ELSE "done"

SetReq(t, r) == requests' = [requests EXCEPT !.th[t] = r]

\* POST /api/message arrives with the id the client holds
Receive(t) ==
    /\ Bounded
    /\ Req(t).pc = "free"
    /\ AllFree \/ ret.session_id # None
    /\ \E m \in RaceMenu :
          requests' = [requests EXCEPT
                          !.th[t] = [FreeRequest EXCEPT !.pc = "new", !.call = "message",
                                                        !.message = m,
                                                        !.session_id = ret.session_id],
                          !.base = IF AllFree THEN [S |-> SESSIONS, W |-> World] ELSE @]
    /\ UNCHANGED <<SESSIONS, now, invoices, transactions, ledgers, unreadable, ret>>

\* a one-shot command calls record_transaction
ReceiveCall(t) ==
    /\ Bounded
    /\ Req(t).pc = "free"
    /\ \E data \in RaceCalls :
          requests' = [requests EXCEPT
                          !.th[t] = [FreeRequest EXCEPT !.pc = "load_txn", !.call = "engine",
                                                        !.data = data],
                          !.base = IF AllFree THEN [S |-> SESSIONS, W |-> World] ELSE @]
    /\ UNCHANGED <<SESSIONS, now, invoices, transactions, ledgers, unreadable, ret>>

\* process_message lines 82-99 and process_expense_step lines 646-647: the
\* state and the step are read; a message for an idle session is handled
\* by process_initial_command at once
Dispatch(t) ==
    /\ Req(t).pc = "new"
    /\ IF DispatchState(Req(t).session_id) = IDLE
       THEN \E out \in {process_message(Req(t).message, Req(t).session_id, SESSIONS,
                                        World, now, "ok", "ok")} :
               /\ SESSIONS' = out.S
               /\ SetReq(t, [Req(t) EXCEPT !.pc = "done", !.kind = out.ret.kind,
                                           !.session_id = out.ret.session_id])
       ELSE /\ SESSIONS' = get_session(SESSIONS, Req(t).session_id, now)
            /\ SetReq(t, [Req(t) EXCEPT !.pc = "step",
                             !.step = DispatchStep(Req(t).session_id, "amount")])
    /\ UNCHANGED <<now, invoices, transactions, ledgers, unreadable, ret>>

\* the message is 'confirm' and the step that was read is confirm
ConfirmsExpense(t) == Req(t).step = "confirm" /\ Lower(Req(t).message) = T_confirm

\* process_expense_step from line 649 on for the step that was read: the one
\* update of a step, or line 783 of the confirm step, which reads the fields
Step(t) ==
    /\ Req(t).pc = "step"
    /\ IF ConfirmsExpense(t)
       THEN /\ SetReq(t, [Req(t) EXCEPT !.pc = "load_txn",
                                        !.data = SESSIONS[Req(t).session_id].data])
            /\ UNCHANGED SESSIONS
       ELSE \E out \in {process_expense_step_at(Req(t).step, Req(t).message,
                                                Req(t).session_id, SESSIONS, World, now,
                                                "ok", "ok")} :
               /\ SESSIONS' = out.S
               /\ SetReq(t, [Req(t) EXCEPT !.pc = "done", !.kind = out.ret.kind])
    /\ UNCHANGED <<now, invoices, transactions, ledgers, unreadable, ret>>

\* record_transaction lines 244-288: the amount and the date are converted
\* and the transactions are loaded
LoadTransactions(t) ==
    /\ Req(t).pc = "load_txn"
    /\ IF RecordExpense(World, Req(t).data, now).W.txn = World.txn
       THEN SetReq(t, [Req(t) EXCEPT !.pc = AfterRecord(t), !.kind = "failed"])
       ELSE SetReq(t, [Req(t) EXCEPT !.pc = "save_txn",
                                     !.txn = load_json_data(World, TRANSACTIONS_FILE)])
    /\ UNCHANGED <<SESSIONS, now, invoices, transactions, ledgers, unreadable, ret>>

\* record_transaction lines 289-295: the transactions that were loaded are
\* saved with the new one
SaveTransactions(t) ==
    /\ Req(t).pc = "save_txn"
    /\ \E res \in {RecordExpense([World EXCEPT !.txn = Req(t).txn], Req(t).data, now)} :
          /\ transactions' = res.W.txn
          /\ SetReq(t, [Req(t) EXCEPT
                           !.pc = IF res.W.led # World.led THEN "load_led" ELSE AfterRecord(t),
                           !.kind = IF res.ok THEN "recorded" ELSE "failed"])
    /\ UNCHANGED <<SESSIONS, now, invoices, ledgers, unreadable, ret>>

\* update_ledger line 314: the ledgers are loaded
LoadLedgers(t) ==
    /\ Req(t).pc = "load_led"
    /\ SetReq(t, [Req(t) EXCEPT !.pc = "save_led",
                                !.led = load_json_data(World, LEDGERS_FILE)])
    /\ UNCHANGED <<SESSIONS, now, invoices, transactions, ledgers, unreadable, ret>>

\* update_ledger lines 316-345: the ledgers that were loaded are saved with
\* the new entry
SaveLedgers(t) ==
    /\ Req(t).pc = "save_led"
    /\ \E res \in {RecordExpense([World EXCEPT !.led = Req(t).led], Req(t).data, now)} :
          /\ ledgers' = res.W.led
          /\ requests' = [requests EXCEPT !.th[t].pc = AfterRecord(t),
                                          !.posted = @ + 1]
    /\ UNCHANGED <<SESSIONS, now, invoices, transactions, unreadable, ret>>

\* process_expense_step lines 796-798 and 813-815: the session is reset
ResetAfter(t) ==
    /\ Req(t).pc = "reset"
    /\ SESSIONS' = ResetSession(SESSIONS, Req(t).session_id, now)
    /\ SetReq(t, [Req(t) EXCEPT !.pc = "done"])
    /\ UNCHANGED <<now, invoices, transactions, ledgers, unreadable, ret>>

\* the responses have been sent; the client holds the id of a response
Settle ==
    /\ Quiet /\ ~AllFree
    /\ \E t \in Threads :
          /\ Req(t).pc = "done"
          /\ ret' = IF Req(t).call = "message"
                    THEN Ret(Req(t).kind, Req(t).session_id,
                             SESSIONS[Req(t).session_id].state)
                    ELSE [ret EXCEPT !.kind = Req(t).kind]
    /\ requests' = [requests EXCEPT !.th = [t \in Threads |-> FreeRequest]]
    /\ UNCHANGED <<SESSIONS, now, invoices, transactions, ledgers, unreadable>>

NextRace ==
    \/ \E t \in Threads : Receive(t)
    \/ \E t \in Threads : ReceiveCall(t)
    \/ \E t \in Threads : Dispatch(t)
    \/ \E t \in Threads : Step(t)
    \/ \E t \in Threads : LoadTransactions(t)
    \/ \E t \in Threads : SaveTransactions(t)
    \/ \E t \in Threads : LoadLedgers(t)
    \/ \E t \in Threads : SaveLedgers(t)
    \/ \E t \in Threads : ResetAfter(t)
    \/ Settle

SpecRace == Init /\ [][NextRace]_vars

(***************************************************************************)
(* C21, C22                                                                *)
(***************************************************************************)
\* the session and the files after message first and then message second
\* were handled one after the other, starting from the stores of base
SerialOutcome(first, second, session_id) ==
    LET o1 == process_message(first, session_id, requests.base.S, requests.base.W,
                              now, "ok", "ok")
        o2 == process_message(second, session_id, o1.S, o1.W, now, "ok", "ok")
    IN  [state |-> o2.S[session_id].state, data |-> o2.S[session_id].data, W |-> o2.W]

\* two messages for the same session have been handled at the same time
BothMessagesDone ==
    /\ \A t \in Threads : Req(t).pc = "done" /\ Req(t).call = "message"
    /\ Req(1).session_id = Req(2).session_id
    /\ InStore(requests.base.S, Req(1).session_id)

\* C21: when two messages for the same session id have been handled at the
\* same time, the state, the step and the fields of the session and the
\* invoices, transactions and ledger entries are those that handling the two
\* messages one after the other, in one of the two orders, leaves.
C21_ConcurrentEqualsSerial ==
    BothMessagesDone =>
       [state |-> SESSIONS[Req(1).session_id].state,
        data |-> SESSIONS[Req(1).session_id].data,
        W |-> World]
          \in {SerialOutcome(Req(1).message, Req(2).message, Req(1).session_id),
               SerialOutcome(Req(2).message, Req(1).message, Req(1).session_id)}

\* C22: when no request is being handled, the ledger file holds one entry for
\* every update_ledger call that saved, for the same party or for different
\* parties, and every balance is the sum its entries give: no entry is lost
\* through the load-modify-save of the ledger file.
C22_NoLedgerEntryLost ==
    Quiet =>
       /\ EntryCount(ledgers) = requests.posted
       /\ \A name \in DOMAIN ledgers :
             ledgers[name].balance = EntrySum(ledgers[name].entries, "invoice")
                                     - EntrySum(ledgers[name].entries, "payment")

(***************************************************************************)
(* C23, C24                                                                *)
(***************************************************************************)
\* the entries of name in the ledger file led, none when it has no ledger
EntriesOf(led, name) == IF name \in DOMAIN led THEN led[name].entries ELSE <<>>

\* the balance of name in the ledger file led, 0 when it has no ledger
BalanceOf(led, name) == IF name \in DOMAIN led THEN led[name].balance ELSE 0

\* led is what the ledger file loaded as old holds after exactly one entry
\* of entry_type was appended for name
OneEntryPosted(old, led, name, entry_type) ==
    /\ DOMAIN led = DOMAIN old \cup {name}
    /\ \A other \in DOMAIN old \ {name} : led[other] = old[other]
    /\ Len(led[name].entries) = Len(EntriesOf(old, name)) + 1
    /\ SubSeq(led[name].entries, 1, Len(EntriesOf(old, name))) = EntriesOf(old, name)
    /\ led[name].entries[Len(led[name].entries)].type = entry_type
    /\ led[name].balance = EntrySum(led[name].entries, "invoice")
                           - EntrySum(led[name].entries, "payment")

NamedCalls == {call \in EngineTransactionCalls : call[1] \notin {None, <<>>}}

\* the balance of name after the call, less its balance in the file loaded
BalanceMove(res, name) ==
    BalanceOf(res.W.led, name) - BalanceOf(load_json_data(World, LEDGERS_FILE), name)

\* C24 as claimed: for a named party and an amount a > 0, an income lowers
\* the balance of the party by a and an expense raises it by a, so that the
\* two move the balance in opposite directions.
C24_OppositeDirections ==
    \A call \in NamedCalls :
       LET income == record_transaction(World, "income", call[1], call[2], M_supplies,
                                        call[3], None, now, "ok", "ok")
           expense == record_transaction(World, "expense", call[1], call[2], M_supplies,
                                         call[3], None, now, "ok", "ok")
       IN  (income.ok /\ expense.ok) =>
              /\ BalanceMove(income, call[1]) = 0 - AmountToFloat(call[2]).val
              /\ BalanceMove(expense, call[1]) = AmountToFloat(call[2]).val

\* C24: for a named party and an amount a > 0, an income posts a 'payment'
\* entry of amount a and an expense posts an 'invoice' entry of amount -a;
\* each lowers the balance of the party by a, so that the two move the
\* balance in the same direction.
C24_BothLowerBalance ==
    \A call \in NamedCalls :
       LET income == record_transaction(World, "income", call[1], call[2], M_supplies,
                                        call[3], None, now, "ok", "ok")
           expense == record_transaction(World, "expense", call[1], call[2], M_supplies,
                                         call[3], None, now, "ok", "ok")
           a == AmountToFloat(call[2]).val
           last(res) == res.W.led[call[1]].entries[Len(res.W.led[call[1]].entries)]
       IN  (income.ok /\ expense.ok) =>
              /\ a > 0
              /\ last(income).type = "payment" /\ last(income).amount = a
              /\ last(expense).type = "invoice" /\ last(expense).amount = 0 - a
              /\ BalanceMove(income, call[1]) = 0 - a
              /\ BalanceMove(expense, call[1]) = 0 - a

\* an expense of 500 has been recorded for a party whose balance is -500
C24_Witness ==
    /\ ret.kind = "true"
    /\ Len(transactions) = 1
    /\ transactions[1].type = "expense"
    /\ \E name \in DOMAIN ledgers :
          /\ ledgers[name].balance = 0 - 500 * Scale
          /\ ledgers[name].entries[1].amount = 0 - 500 * Scale

(***************************************************************************)
(* C25, C26                                                                *)
(***************************************************************************)
\* a value that was not supplied, is None or is empty
Absent(v) == v \in {None, <<>>}

\* the seller_state the caller supplied, None when it supplied none
SuppliedSellerState(additional_details) == Get(additional_details, "seller_state", None)

\* the invoice carries the interstate split: all of its GST is IGST
TreatedInterstate(invoice) ==
    /\ invoice.igst_amount = invoice.gst_amount
    /\ invoice.cgst_amount = 0
    /\ invoice.sgst_amount = 0

\* the invoice carries the intrastate split: its GST is halved into CGST and SGST
TreatedIntrastate(invoice) ==
    /\ invoice.igst_amount = 0
    /\ invoice.cgst_amount + invoice.sgst_amount = invoice.gst_amount
    /\ invoice.cgst_amount = invoice.sgst_amount

\* C25: a taxed invoice of create_invoice is interstate exactly when
\* place_of_supply and seller_state differ as raw strings, and it is
\* interstate whenever place_of_supply or seller_state is absent (not
\* supplied, None or empty); it is intrastate only when both are supplied
\* and identical.
C25_InterstateUnlessBothGivenAndEqual ==
    \A call \in EngineInvoiceCalls :
       LET res == create_invoice(World, M_acme, call[1], None, None, None, 18,
                                 call[2], FALSE, call[3], now, "ok", "ok")
           seller_state == SuppliedSellerState(call[3])
       IN  (res.ok /\ res.invoice.gst_amount > 0) =>
              /\ TreatedInterstate(res.invoice) \/ TreatedIntrastate(res.invoice)
              /\ (~Absent(call[2]) /\ ~Absent(seller_state)) =>
                    (TreatedInterstate(res.invoice) <=> call[2] # seller_state)
              /\ (Absent(call[2]) \/ Absent(seller_state)) =>
                    TreatedInterstate(res.invoice)

\* the item carries the interstate split
ItemInterstate(item) ==
    item.igst_amount = item.gst_amount /\ item.cgst_amount = 0 /\ item.sgst_amount = 0

\* the item carries the intrastate split
ItemIntrastate(item) ==
    /\ item.igst_amount = 0
    /\ item.cgst_amount = item.sgst_amount
    /\ 2 * item.cgst_amount = item.gst_amount

\* C26: for every item of every stored invoice, taxable_value is the base
\* amount less discount_amount and gst_amount is taxable_value x gst_rate /
\* 100; the items of an intrastate invoice have cgst_amount = sgst_amount =
\* gst_amount / 2 and igst_amount = 0, the items of an interstate invoice have
\* igst_amount = gst_amount and cgst_amount = sgst_amount = 0: all items of
\* an invoice carry the split of the invoice.
C26_ItemTaxLines ==
    \A i \in DOMAIN invoices :
       /\ \A k \in DOMAIN invoices[i].items :
             LET item == invoices[i].items[k]
             IN  /\ item.taxable_value = item.base_amount - item.discount_amount
                 /\ item.gst_amount = MulDiv(item.taxable_value, item.gst_rate, 100)
       /\ \/ /\ TreatedInterstate(invoices[i])
             /\ \A k \in DOMAIN invoices[i].items : ItemInterstate(invoices[i].items[k])
          \/ /\ TreatedIntrastate(invoices[i])
             /\ \A k \in DOMAIN invoices[i].items : ItemIntrastate(invoices[i].items[k])

\* an intrastate invoice of a discounted item and an interstate invoice have
\* been stored
C26_Witness ==
    \E i \in DOMAIN invoices :
       \E k \in DOMAIN invoices[i].items :
          /\ invoices[i].items[k].discount_amount > 0
          /\ invoices[i].items[k].taxable_value < invoices[i].items[k].base_amount
          /\ invoices[i].items[k].cgst_amount > 0
          /\ invoices[i].cgst_amount > 0

(***************************************************************************)
(* C27, C28                                                                *)
(***************************************************************************)
\* the last entry of the ledger of name
LastEntry(led, name) == led[name].entries[Len(led[name].entries)]

\* C27: a create_invoice call that returns an invoice has appended that
\* invoice to the invoice file and has posted exactly one ledger entry of
\* type 'invoice' for the recipient, whose amount is the total_amount of the
\* invoice and whose reason is the name of the item when there is one item;
\* a call that returns None has posted no ledger entry.
C27_InvoiceReturnedIsStoredAndPosted ==
    \A call \in EngineInvoiceCalls, w1 \in WriteOutcomes, w2 \in WriteOutcomes :
       LET res == create_invoice(World, M_acme, call[1], None, None, None, 18,
                                 call[2], FALSE, call[3], now, w1, w2)
           old == load_json_data(World, LEDGERS_FILE)
       IN  IF res.ok
           THEN /\ res.W.inv = Append(load_json_data(World, INVOICES_FILE), res.invoice)
                /\ OneEntryPosted(old, res.W.led, M_acme, "invoice")
                /\ LastEntry(res.W.led, M_acme).amount = res.invoice.total_amount
                /\ Len(res.invoice.items) = 1
                      => LastEntry(res.W.led, M_acme).reason = res.invoice.items[1].name
           ELSE res.W.led = ledgers

\* C28: when 'confirm' at the confirm step of a flow records an invoice or a
\* transaction with a party name and the write of the ledger file fails, the
\* response is a failure message and not the success message of the flow:
\* the failed write is reported by update_ledger, by the engine and to the user.
C28_LedgerWriteFailureReported ==
    (AtAnyConfirm /\ PartyNamed /\ EngineAccepts) =>
       \A w2 \in WriteOutcomes \ {"ok"} :
          ConfirmOutcome("ok", w2).ret.kind \notin {"created", "recorded"}

(***************************************************************************)
(* Invoices issued while the clock runs: create_invoice is called with no  *)
(* custom number, any number of milliseconds after the call before.        *)
(***************************************************************************)
\* the arguments of the create_invoice calls: items, place_of_supply,
\* additional_details
IssueCalls ==
    { <<<<FlowItem(N_design, A_10000)>>, DELHI, "seller_state" :> DELHI>>,
      <<<<FlowItem(M_rent, M_500)>>, None, EmptyDict>> }

\* datetime.now() moves on between two calls
Pass ==
    \E d \in {400, 1000} :
       /\ now + d <= MaxClock
       /\ now' = now + d
       /\ UNCHANGED <<SESSIONS, invoices, transactions, ledgers, unreadable, ret, requests>>

\* create_invoice with custom_invoice_number = None, every write succeeding
IssueInvoice ==
    /\ Len(invoices) < MaxIssued
    /\ \E call \in IssueCalls :
          \E res \in {create_invoice(World, M_acme, call[1], None, None, None, 18,
                                     call[2], FALSE, call[3], now, "ok", "ok")} :
             ApplyEngine(res.W, IF res.ok THEN "invoice" ELSE "none")

NextIssue ==
    \/ Pass
    \/ IssueInvoice

SpecIssue == Init /\ [][NextIssue]_vars

(***************************************************************************)
(* C29                                                                     *)
(***************************************************************************)
\* C29: any two invoices that create_invoice appended to the invoice file
\* without a custom number have different ids, whatever the time between
\* the two calls.
C29_InvoiceIdsUnique ==
    \A i \in DOMAIN invoices, j \in DOMAIN invoices :
       i # j => invoices[i].id # invoices[j].id

(***************************************************************************)
(* C30                                                                     *)
(***************************************************************************)
\* C30: every transaction the expense flow or the payment flow has recorded
\* has an amount above zero, and the amount step of a flow stores no input
\* whose amount is zero.
C30_RecordedAmountsPositive ==
    /\ \A i \in DOMAIN transactions : transactions[i].amount > 0
    /\ \A session_id \in DOMAIN SESSIONS :
          (/\ SESSIONS[session_id].state \in {EXPENSE_RECORDING, PAYMENT_RECORDING}
           /\ "amount" \in DOMAIN SESSIONS[session_id].data
           /\ AmountToFloat(SESSIONS[session_id].data["amount"]).ok)
             => AmountToFloat(SESSIONS[session_id].data["amount"]).val > 0

(***************************************************************************)
(* C31                                                                     *)
(***************************************************************************)
\* get_ledger(name) for every name: the ledgers a reader finds in the file
StoredLedgers == load_json_data(World, LEDGERS_FILE)

\* every ledger of old is in new with its entries first and in place, and at
\* most one entry was appended in all
AppendedOnly(old, new) ==
    /\ \A name \in DOMAIN old :
          /\ name \in DOMAIN new
          /\ Len(new[name].entries) >= Len(old[name].entries)
          /\ SubSeq(new[name].entries, 1, Len(old[name].entries)) = old[name].entries
    /\ EntryCount(new) <= EntryCount(old) + 1
    /\ \A name \in DOMAIN new : Len(new[name].entries) >= 1

\* C31: the ledger store is append-only: a ledger exists from the first
\* entry posted for its name, and no create_invoice, record_transaction or
\* update_ledger call removes a ledger or removes, reorders or modifies an
\* entry; a call appends at most one entry, to the party it names, and
\* leaves the ledger of every other party as it was.
C31_LedgersAppendOnly == [][AppendedOnly(StoredLedgers, StoredLedgers')]_vars

(***************************************************************************)
(* C32                                                                     *)
(***************************************************************************)
\* C32: while the session of the client is in a flow, no message starts a
\* different flow or runs a command of the idle state: every message,
\* 'create invoice', 'record expense', 'record payment' and 'help' among
\* them, is answered for the same session id and leaves the session in the
\* flow it was in or in Idle, and is never answered as a start of a flow
\* or as help.
C32_NoOtherFlowWhileInFlow ==
    InFlowAtStep =>
       \A m \in AnyStepMessages \cup IdleMenu : \A w1, w2 \in Writes(m) :
          \A out \in {process_message(m, ret.session_id, SESSIONS, World, now, w1, w2)} :
             /\ out.ret.session_id = ret.session_id
             /\ DOMAIN out.S = DOMAIN SESSIONS
             /\ out.S[ret.session_id].state \in {SESSIONS[ret.session_id].state, IDLE}
             /\ out.ret.session_state \in {SESSIONS[ret.session_id].state, IDLE}
             /\ out.ret.kind \notin {"start", "help"}

\* 'create invoice' was sent at the notes step of an expense flow: it is the
\* note of the expense, and the session waits for the confirmation
C32_Witness ==
    /\ AtConfirm(EXPENSE_RECORDING)
    /\ Get(SESSIONS[ret.session_id].data, "notes", None) = M_create_invoice
    /\ "recipient" \notin DOMAIN SESSIONS[ret.session_id].data

(***************************************************************************)
(* C33                                                                     *)
(***************************************************************************)
\* get_session_state(session_id): the store afterwards and the value
\* returned, None when get_session returns no session
get_session_state(S, session_id, t) ==
    [S |-> get_session(S, session_id, t),
     ret |-> IF get_session_found(S, session_id, t)
             THEN [state |-> S[session_id].state, data |-> S[session_id].data]
             ELSE None]

\* the idle time of the session is above SESSION_TIMEOUT seconds
IdleTooLong(session_id) == now - SESSIONS[session_id].last_updated > 1800 * 1000

C34_CleanRemovesExactlyTheIdle ==
    \A out \in {clean_expired_sessions(SESSIONS, now)} :
       /\ DOMAIN out = {k \in DOMAIN SESSIONS : ~IdleTooLong(k)}
       /\ \A k \in DOMAIN out : out[k] = SESSIONS[k]
       /\ clean_expired_sessions_returns(SESSIONS, now)
             = Cardinality(DOMAIN SESSIONS) - Cardinality(DOMAIN out)

\* a cleanup has removed one session and has kept a session whose idle time
\* is exactly 30 minutes
C34_Witness ==
    /\ ret.kind = "cleaned 1"
    /\ \E k \in DOMAIN SESSIONS : now - SESSIONS[k].last_updated = 1800 * 1000

(***************************************************************************)
(* C35                                                                     *)
(***************************************************************************)
\* C35: in every reachable state of the store a session whose state is Idle
\* has an empty field map: whatever put it back to Idle (a cancel, a
\* confirm that succeeded or failed, an unknown step or state, the
\* exception handler of process_message) cleared the fields, so that a flow
\* started later finds none of them.
C35_IdleSessionHasNoFields ==
    \A session_id \in DOMAIN SESSIONS :
       SESSIONS[session_id].state = IDLE => SESSIONS[session_id].data = EmptyDict

(***************************************************************************)
(* C36                                                                     *)
(***************************************************************************)
\* C36: after every call of process_message the session_state of the tuple
\* it returned is the state stored for the session_id of that tuple; when it
\* returned Idle the stored session is Idle, also when the call ended in an
\* error.
C36_ReturnedStateIsStoredState ==
    (ret.kind # "none" /\ InStore(SESSIONS, ret.session_id)) =>
       SESSIONS[ret.session_id].state = ret.session_state

(***************************************************************************)
(* C37                                                                     *)
(***************************************************************************)
\* the steps that 'skip' passes without a value
OptionalSteps == {"recipient_gst", "sender_gst", "vendor", "notes"}

\* C37: 'skip' at an optional step (recipient_gst, sender_gst, vendor,
\* notes) leaves the session without a value for the field of that step,
\* also on a second pass after 'edit', so that the invoice or transaction
\* that 'confirm' creates from the fields carries none.
C37_SkipLeavesNoValue ==
    (InFlowAtStep /\ SESSIONS[ret.session_id].data["current_step"] \in OptionalSteps) =>
       \A out \in {process_message(T_skip, ret.session_id, SESSIONS, World, now, "ok", "ok")} :
          ~Truthy(Get(out.S[ret.session_id].data,
                      SESSIONS[ret.session_id].data["current_step"], None))

(***************************************************************************)
(* C38                                                                     *)
(***************************************************************************)
\* C38: a session whose idle time has exceeded 30 minutes stays out of
\* reach: no operation, and no cancel message, update_session or
\* clear_session_data on its id in particular, refreshes its timestamp, so
\* that after every step the session is either removed or still more than
\* 30 minutes idle and get_session returns no session for it.
C38_ExpiredStaysExpired ==
    [][\A k \in DOMAIN SESSIONS :
          IdleTooLong(k) =>
             \/ k \notin DOMAIN SESSIONS'
             \/ now' - SESSIONS'[k].last_updated > 1800 * 1000]_vars

(***************************************************************************)
(* C39                                                                     *)
(***************************************************************************)
\* C39: create_session, called at any moment, returns an id that is not in
\* the store before the call, leaves every session already stored as it
\* was, and stores the new session idle with no fields.
C39_CreateSessionFreshId ==
    LET created == create_session(SESSIONS, now)
    IN  /\ ~InStore(SESSIONS, SessionId(now))
        /\ \A k \in DOMAIN SESSIONS : created[k] = SESSIONS[k]
        /\ created[SessionId(now)].state = IDLE
        /\ created[SessionId(now)].data = EmptyDict

(***************************************************************************)
(* C40                                                                     *)
(***************************************************************************)
\* the path the steps of a flow are taken from
FlowPath(flow) == IF flow = INVOICE_CREATION THEN INVOICE_FLOW_PATH ELSE PathOf(flow)

\* the step of a session moved to a later position of the path of its flow
MovedLater(session_id, flow) ==
    LET old == SESSIONS[session_id].data["current_step"]
        new == SESSIONS'[session_id].data["current_step"]
    IN  /\ old \in Range(FlowPath(flow)) /\ new \in Range(FlowPath(flow))
        /\ PathIndex(FlowPath(flow), new) > PathIndex(FlowPath(flow), old)

\* 'confirm' at the confirm step leaves the stored session idle, whatever
\* the file writes do
ConfirmReachesIdle ==
    AtAnyConfirm =>
       \A w1 \in WriteOutcomes, w2 \in WriteOutcomes :
          ConfirmOutcome(w1, w2).S[ret.session_id].state = IDLE

\* one cancel message leaves a session that is in a flow idle
CancelReachesIdle ==
    InFlowAtStep =>
       process_message(T_cancel, ret.session_id, SESSIONS, World, now,
                       "ok", "ok").S[ret.session_id].state = IDLE

\* C40: every flow terminates.  The paths have 6 (invoice, expense) and 5
\* (payment) positions; apart from the rewind 'edit' makes at confirm, every
\* change of current_step is a move to a later position of the path; at the
\* last position 'confirm' leaves the session Idle, so that a session given
\* an accepted answer at each step and then 'confirm' is Idle after 6, 6 and
\* 5 messages; and from every state in a flow one cancel message leaves the
\* session Idle.
C40_FlowsTerminate ==
    /\ Len(FlowPath(INVOICE_CREATION)) = 6
    /\ Len(FlowPath(EXPENSE_RECORDING)) = 6
    /\ Len(FlowPath(PAYMENT_RECORDING)) = 5
    /\ [][\A session_id \in DOMAIN SESSIONS :
             \A flow \in {INVOICE_CREATION, EXPENSE_RECORDING, PAYMENT_RECORDING} :
                StepMoved(session_id, flow) =>
                   MovedLater(session_id, flow) \/ Rewound(session_id, flow)]_vars
    /\ [](ConfirmReachesIdle /\ CancelReachesIdle)

====
